---- MODULE Spec2Model ----
(***************************************************************************)
(* Model of GoAlert in four parts, each with its own specification.        *)
(*                                                                         *)
(* Spec: the metrics manager engine cycle (engine/metricsmanager/          *)
(* update.go): UpdateAll, UpdateAlertMetrics and UpdateDailyAlertMetrics,  *)
(* run by several engine instances against one database.  Every statement  *)
(* that goes to the database is one step, so that invocations interleave   *)
(* between statements.  The SQL statements and the processing lock live    *)
(* outside update.go; they are modelled from the design document           *)
(* (sections 3, 4.3 and 4.4).                                              *)
(*                                                                         *)
(* SpecApp: the root command of package app (RootCmd.RunE, getConfig) and  *)
(* handleShutdown with its signal channel, timer and goroutine.            *)
(*                                                                         *)
(* SpecCmd: the subcommands switchover-shell, migrate and self-test.       *)
(*                                                                         *)
(* SpecSwitch, SpecSwitchLive: the switchover handler, routing connector,  *)
(* coordination bus and sync engine.  Their code is outside the sources    *)
(* at hand; they are modelled from the design document (sections 3 and     *)
(* 4.2 to 4.7).                                                            *)
(***************************************************************************)
EXTENDS Integers, Sequences, FiniteSets, TLC

\* ---------------------------------------------------------------- bounds
MaxTime == 3         \* the server clock runs from 1 to MaxTime
MaxLogs == 2         \* alert_logs rows that are ever appended
MaxCalls == 3        \* invocations started over one run
BatchLimit == 2      \* rows returned by one scanLogs query
DayLen == 2          \* clock ticks per calendar day

\* the engine instances that call into the metrics manager
Procs == {"e1", "e2"}
NoProc == "none"
ZeroTime == 0        \* Go's zero time.Time, before every real timestamp

\* date(timestamp): day 0 holds only the zero time, day 1 is 1..DayLen, ...
Day(t) == (t + DayLen - 1) \div DayLen

VARIABLES
    now,          \* server clock
    logs,         \* committed alert_logs rows [id, timestamp, alert_id]
    blob,         \* committed state blob of the processing lock (State.V2)
    metrics,      \* committed alert_metrics: alert id -> seq of closed_at, one per row
    daily,        \* committed daily_alert_metrics: seq of dates, one per insert
    lockHolder,   \* process holding the processing lock, or NoProc
    pc,           \* position of each process
    call,         \* function each process was asked to run
    calls,        \* invocations started so far
    state,        \* local `state` of each invocation
    boundNow,     \* local `boundNow`
    rows,         \* result set of the scanLogs query
    alertIDs,     \* local `alertIDs`
    lastLogTime,  \* local `lastLogTime`
    lastLogID,    \* local `lastLogID`
    nextDate,     \* local `nextDate` (sql.NullTime)
    txBlob,       \* state saved inside the open transaction, not yet committed
    txMetrics,    \* alert_metrics rows inserted inside the open transaction
    txDaily,      \* daily_alert_metrics dates inserted inside the open transaction
    loaded,       \* history: the blob each open transaction loaded
    snap,         \* history: the database as it was when the transaction began
    processed,    \* history: log id -> number of committed batches holding it
    last          \* history: the call that returned in the step leading here, if any

\* the root command and its shutdown handler (cmd file of package app)
VARIABLES
    flags,        \* the configuration the process was started with
    rootPC,       \* position of RootCmd.RunE
    cfg,          \* local `cfg` of RunE, as getConfig returned it
    ret,          \* what RunE returned, once it has
    migrations,   \* what was done to the schema: "none", "verified" or "applied"
    connectors,   \* the database URLs a connector was opened on
    h,            \* local `h`: "nil" or the switchover handler
    db,           \* local `db`: "nil" or where the handle came from
    app,          \* local `app`: "nil" or the db handle the app was built on
    run,          \* a subcommand's RunE: its locals and the calls it has made
    sigSent,      \* shutdown signals the process was sent so far
    shutdownSignalCh,  \* signals buffered in the channel
    hsPC,         \* position of handleShutdown
    goPC,         \* position of the goroutine waiting for the second signal
    sCtx,         \* the shutdown context: [state, cause]
    elapsed,      \* timer ticks since the shutdown context was created
    fnPC,         \* position of the shutdown function
    fnLog         \* history: the calls the shutdown function made, in order

\* the switchover subsystem (design document, sections 3 and 4.2 to 4.7)
VARIABLES
    switchover_state,  \* the singleton row on old: [phase, version]
    bus,          \* coordination bus: every message published so far
    acked,        \* nodes whose freeze ack has reached the leader
    freezeT,      \* leader's timer: ticks since freeze was broadcast
    c2,           \* routing connector of each node: [target, version, frozen]
    c6,           \* switchover handler of each node: [version, seen]
    conn,         \* the connection each node's application holds
    c5,           \* sync engine: [triggers, installed, max_id, cursor, applied]
    writes,       \* write transactions begun so far
    ev            \* history: what the step leading here did, if it is of interest

dbVars == <<now, logs, blob, metrics, daily>>
txVars == <<txBlob, txMetrics, txDaily>>
localVars == <<state, boundNow, rows, alertIDs, lastLogTime, lastLogID, nextDate>>
histVars == <<loaded, snap, processed>>
metricsVars == <<now, logs, blob, metrics, daily, lockHolder, pc, call, calls,
                 state, boundNow, rows, alertIDs, lastLogTime, lastLogID, nextDate,
                 txBlob, txMetrics, txDaily, loaded, snap, processed, last>>
rootVars == <<flags, rootPC, cfg, ret, migrations, connectors, h, db, app, run>>
shutdownVars == <<sigSent, shutdownSignalCh, hsPC, goPC, sCtx, elapsed, fnPC, fnLog>>
appVars == <<rootVars, shutdownVars>>
switchVars == <<switchover_state, bus, acked, freezeT, c2, c6, conn, c5, writes, ev>>
\* everything outside the metrics manager
otherVars == <<appVars, switchVars>>
nonAppVars == <<metricsVars, switchVars>>
nonSwitchVars == <<metricsVars, appVars>>
vars == <<metricsVars, otherVars>>

\* ------------------------------------------------------------ State (V2)
State == [LastLogTime |-> ZeroTime, LastLogID |-> 0, LastMetricsDate |-> ZeroTime]

NullTime == [Valid |-> FALSE, Time |-> ZeroTime]
NoSave == [saved |-> FALSE, value |-> State]

\* (t1, i1) < (t2, i2), compared lexicographically
CursorLess(t1, i1, t2, i2) == t1 < t2 \/ (t1 = t2 /\ i1 < i2)
CursorLeq(t1, i1, t2, i2) == t1 < t2 \/ (t1 = t2 /\ i1 <= i2)

\* what other sessions can read: the committed blob and tables
DB == [blob |-> blob, metrics |-> metrics, daily |-> daily]
EmptyDB == [blob |-> State, metrics |-> [a \in 1..MaxLogs |-> <<>>], daily |-> <<>>]

NoLast == [fn |-> "none", p |-> NoProc, call |-> "none", outcome |-> "none",
           error |-> "nil",
           pre |-> EmptyDB, post |-> EmptyDB, rows |-> <<>>,
           boundNow |-> ZeroTime, nextDate |-> NullTime]

SeqToSet(s) == {s[i] : i \in 1..Len(s)}

\* ------------------------------------------------------------------ Init
\* the metrics manager before its first cycle
InitMetrics ==
    /\ now = 1
    /\ logs = {}
    /\ blob = State
    /\ metrics = EmptyDB.metrics
    /\ daily = EmptyDB.daily
    /\ lockHolder = NoProc
    /\ pc = [p \in Procs |-> "idle"]
    /\ call = [p \in Procs |-> "none"]
    /\ calls = 0
    /\ state = [p \in Procs |-> State]
    /\ boundNow = [p \in Procs |-> ZeroTime]
    /\ rows = [p \in Procs |-> <<>>]
    /\ alertIDs = [p \in Procs |-> <<>>]
    /\ lastLogTime = [p \in Procs |-> ZeroTime]
    /\ lastLogID = [p \in Procs |-> 0]
    /\ nextDate = [p \in Procs |-> NullTime]
    /\ txBlob = [p \in Procs |-> NoSave]
    /\ txMetrics = [p \in Procs |-> {}]
    /\ txDaily = [p \in Procs |-> <<>>]
    /\ loaded = [p \in Procs |-> State]
    /\ snap = [p \in Procs |-> EmptyDB]
    /\ processed = [i \in 1..MaxLogs |-> 0]
    /\ last = NoLast

NilErr == [wrap |-> "", field |-> "", reason |-> "nil"]
NoCfg == [DBURL |-> "", DBURLNext |-> "", APIOnly |-> FALSE]
NoRet == [returned |-> FALSE, err |-> NilErr]
NoCtx == [state |-> "none", cause |-> "none", deadline |-> FALSE]
NoRun == [failed |-> FALSE, serviceList |-> <<>>, calls |-> <<>>]

\* the process has not been started
RootNotStarted ==
    /\ rootPC = "start"
    /\ cfg = NoCfg
    /\ ret = NoRet
    /\ migrations = "none"
    /\ connectors = {}
    /\ h = "nil"
    /\ db = "nil"
    /\ app = "nil"
    /\ run = NoRun
    /\ sigSent = 0
    /\ shutdownSignalCh = 0
    /\ hsPC = "none"
    /\ goPC = "none"
    /\ sCtx = NoCtx
    /\ elapsed = 0
    /\ fnPC = "none"
    /\ fnLog = <<>>

\* the switchover subsystem
Nodes == {"n1", "n2"}
NodeId(n) == IF n = "n1" THEN 1 ELSE 2
NoConn == [state |-> "none", target |-> "old", tag |-> 0]
NoEv == [kind |-> "none", node |-> "none", tag |-> 0, cver |-> 0, verdict |-> "none",
         heartbeats |-> {}]

\* no switchover has been asked for: phase idle, every node routes to old
SwitchoverIdle ==
    /\ switchover_state = [phase |-> "idle", version |-> 0]
    /\ bus = {}
    /\ acked = {}
    /\ freezeT = 0
    /\ c2 = [n \in Nodes |-> [target |-> "old", version |-> 0, frozen |-> FALSE]]
    /\ c6 = [n \in Nodes |-> [version |-> 0, seen |-> {}]]
    /\ conn = [n \in Nodes |-> NoConn]
    /\ c5 = [triggers |-> FALSE, installed |-> FALSE, max_id |-> 0, cursor |-> 0,
             applied |-> <<>>]
    /\ writes = 0
    /\ ev = NoEv

\* the metrics manager on its own: no root command runs
Init ==
    /\ InitMetrics
    /\ flags = [db_url |-> "", db_url_next |-> "", api_only |-> FALSE]
    /\ RootNotStarted
    /\ SwitchoverIdle

\* ----------------------------------------------------------- environment
\* The server clock advances.
Tick ==
    /\ now < MaxTime
    /\ now' = now + 1
    /\ UNCHANGED <<logs, blob, metrics, daily, lockHolder, pc, call, calls>>
    /\ UNCHANGED localVars /\ UNCHANGED txVars /\ UNCHANGED histVars /\ last' = NoLast /\ UNCHANGED otherVars

\* The alert whose closing is recorded by log row i: every alert is closed
\* once, and alert ids do not follow the order of log ids.
AlertOf(i) == MaxLogs + 1 - i

\* An alert is closed: one alert_logs row is appended with the next serial id
\* and the current server time.
AppendLog ==
    /\ Cardinality(logs) < MaxLogs
    /\ LET i == Cardinality(logs) + 1
       IN logs' = logs \cup {[id |-> i, timestamp |-> now, alert_id |-> AlertOf(i)]}
    /\ UNCHANGED <<now, blob, metrics, daily, lockHolder, pc, call, calls>>
    /\ UNCHANGED localVars /\ UNCHANGED txVars /\ UNCHANGED histVars /\ last' = NoLast /\ UNCHANGED otherVars

\* ------------------------------------------- the database, as statements
\* scanLogs: the rows after the cursor (t, i) and no later than b, oldest
\* first with the id breaking ties, at most BatchLimit of them.
scanLogsMatch(t, i, b) ==
    {r \in logs : CursorLess(t, i, r.timestamp, r.id) /\ r.timestamp <= b}

RECURSIVE OrderByTimestampID(_)
OrderByTimestampID(S) ==
    IF S = {} THEN <<>>
    ELSE LET m == CHOOSE r \in S : \A q \in S :
                     CursorLeq(r.timestamp, r.id, q.timestamp, q.id)
         IN <<m>> \o OrderByTimestampID(S \ {m})

Limit(s, n) == SubSeq(s, 1, IF Len(s) < n THEN Len(s) ELSE n)

scanLogs(t, i, b) == Limit(OrderByTimestampID(scanLogsMatch(t, i, b)), BatchLimit)

\* insertMetrics: one alert_metrics row per alert of ids, closed at the time
\* of the alert's closing log row; alert_id is the primary key, so an alert
\* that already has a row gets no second one.
ClosedAt(a) == (CHOOSE r \in logs : r.alert_id = a).timestamp

insertMetrics(ids) ==
    {[alert_id |-> a, closed_at |-> ClosedAt(a)] : a \in {b \in SeqToSet(ids) : metrics[b] = <<>>}}

\* the first clock value of day d
DateTime(d) == (d - 1) * DayLen + 1

\* nextDailyMetricsDate: the smallest date of an alert_metrics row that is
\* after the date of lastMetricsDate and before the date of lastLogTime.
MetricsDates == UNION {{Day(metrics[a][i]) : i \in 1..Len(metrics[a])} : a \in DOMAIN metrics}

nextDailyMetricsDate(lastMetricsDate, lastLogTm) ==
    LET cand == {d \in MetricsDates : d > Day(lastMetricsDate) /\ d < Day(lastLogTm)}
    IN IF cand = {} THEN NullTime
       ELSE [Valid |-> TRUE, Time |-> DateTime(CHOOSE d \in cand : \A e \in cand : d <= e)]

\* BeginTxWithState: opens a transaction and takes the processing lock for
\* its duration; it waits while another transaction holds the lock.
BeginTxWithState(p) ==
    /\ lockHolder = NoProc
    /\ lockHolder' = p
    /\ txBlob' = [txBlob EXCEPT ![p] = NoSave]
    /\ txMetrics' = [txMetrics EXCEPT ![p] = {}]
    /\ txDaily' = [txDaily EXCEPT ![p] = <<>>]

\* lockState.Load: the state blob as the transaction sees it, which is the
\* committed blob while the transaction has saved nothing.
lockState_Load(p) == IF txBlob[p].saved THEN txBlob[p].value ELSE blob

\* lockState.Save: the blob is written inside the transaction; it replaces
\* the committed blob when the transaction commits.
lockState_Save(p, v) == txBlob' = [txBlob EXCEPT ![p] = [saved |-> TRUE, value |-> v]]

\* tx.Commit: everything the transaction wrote becomes visible at once and
\* the lock is released.
Commit(p) ==
    /\ blob' = IF txBlob[p].saved THEN txBlob[p].value ELSE blob
    /\ metrics' = [a \in DOMAIN metrics |->
                     IF \E m \in txMetrics[p] : m.alert_id = a
                     THEN Append(metrics[a], (CHOOSE m \in txMetrics[p] : m.alert_id = a).closed_at)
                     ELSE metrics[a]]
    /\ daily' = daily \o txDaily[p]
    /\ lockHolder' = IF lockHolder = p THEN NoProc ELSE lockHolder
    /\ txBlob' = [txBlob EXCEPT ![p] = NoSave]
    /\ txMetrics' = [txMetrics EXCEPT ![p] = {}]
    /\ txDaily' = [txDaily EXCEPT ![p] = <<>>]

\* mutant: the deferred call commits instead of rolling back
RollbackCommits(p) == Commit(p)

\* tx.Rollback (deferred): everything the transaction wrote is discarded
\* and the lock is released.
Rollback(p) ==
    /\ UNCHANGED <<blob, metrics, daily>>
    /\ lockHolder' = IF lockHolder = p THEN NoProc ELSE lockHolder
    /\ txBlob' = [txBlob EXCEPT ![p] = NoSave]
    /\ txMetrics' = [txMetrics EXCEPT ![p] = {}]
    /\ txDaily' = [txDaily EXCEPT ![p] = <<>>]

\* ------------------------------------------------------ call and return
\* An engine instance calls UpdateAlertMetrics or UpdateDailyAlertMetrics.
Invoke(p) ==
    /\ pc[p] = "idle"
    /\ calls < MaxCalls
    /\ calls' = calls + 1
    /\ \E f \in {"UpdateAlertMetrics", "UpdateDailyAlertMetrics"} :
          /\ call' = [call EXCEPT ![p] = f]
          /\ pc' = [pc EXCEPT ![p] = IF f = "UpdateAlertMetrics" THEN "am_begin" ELSE "dm_begin"]
    /\ UNCHANGED lockHolder
    /\ UNCHANGED dbVars /\ UNCHANGED localVars /\ UNCHANGED txVars /\ UNCHANGED histVars /\ last' = NoLast /\ UNCHANGED otherVars

\* mutant: UpdateAll goes on to UpdateDailyAlertMetrics whatever
\* UpdateAlertMetrics returned
ReturnToAlways(p, fn, e) ==
    IF call[p] = "UpdateAll" /\ fn = "UpdateAlertMetrics"
    THEN /\ pc' = [pc EXCEPT ![p] = "dm_begin"]
         /\ call' = call
    ELSE /\ pc' = [pc EXCEPT ![p] = "idle"]
         /\ call' = [call EXCEPT ![p] = "none"]

\* Where a process goes when function fn returns e: UpdateAll goes on to
\* UpdateDailyAlertMetrics when UpdateAlertMetrics returned nil, and returns
\* e to its caller otherwise.
ReturnTo(p, fn, e) ==
    IF call[p] = "UpdateAll" /\ fn = "UpdateAlertMetrics" /\ e = "nil"
    THEN /\ pc' = [pc EXCEPT ![p] = "dm_begin"]
         /\ call' = call
    ELSE /\ pc' = [pc EXCEPT ![p] = "idle"]
         /\ call' = [call EXCEPT ![p] = "none"]

\* The function returns: its locals are gone.
Leave(p) ==
    /\ state' = [state EXCEPT ![p] = State]
    /\ boundNow' = [boundNow EXCEPT ![p] = ZeroTime]
    /\ rows' = [rows EXCEPT ![p] = <<>>]
    /\ alertIDs' = [alertIDs EXCEPT ![p] = <<>>]
    /\ lastLogTime' = [lastLogTime EXCEPT ![p] = ZeroTime]
    /\ lastLogID' = [lastLogID EXCEPT ![p] = 0]
    /\ nextDate' = [nextDate EXCEPT ![p] = NullTime]
    /\ loaded' = [loaded EXCEPT ![p] = State]
    /\ snap' = [snap EXCEPT ![p] = EmptyDB]

\* history: function fn of p has returned e to the call that p was asked to
\* run; pre is the database as it was when its transaction began (as it is
\* now when none began)
Ended(p, fn, outcome, e) ==
    /\ last' = [fn |-> fn, p |-> p, call |-> call[p], outcome |-> outcome, error |-> e,
                pre |-> IF lockHolder = p THEN snap[p] ELSE DB,
                post |-> [blob |-> blob', metrics |-> metrics', daily |-> daily'],
                rows |-> rows[p], boundNow |-> boundNow[p], nextDate |-> nextDate[p]]
    /\ UNCHANGED otherVars

\* ---------------------------------------------------- UpdateAlertMetrics
\* mutant: the loop keeps the time and id of the first row it reads
rowsNextFirst(rs, acc) ==
    IF rs = <<>> THEN acc
    ELSE [alertIDs |-> acc.alertIDs \o [k \in 1..Len(rs) |-> rs[k].alert_id],
          lastLogTime |-> Head(rs).timestamp,
          lastLogID |-> Head(rs).id]

\* the loop over rows.Next(): every row read is appended to alertIDs and
\* overwrites lastLogTime and lastLogID
RECURSIVE rowsNext(_, _)
rowsNext(rs, acc) ==
    IF rs = <<>> THEN acc
    ELSE rowsNext(Tail(rs), [alertIDs |-> Append(acc.alertIDs, Head(rs).alert_id),
                             lastLogTime |-> Head(rs).timestamp,
                             lastLogID |-> Head(rs).id])

\* mutant: the transaction is begun without the processing lock
amBeginNoLock(p) ==
    /\ pc[p] = "am_begin"
    /\ txBlob' = [txBlob EXCEPT ![p] = NoSave]
    /\ txMetrics' = [txMetrics EXCEPT ![p] = {}]
    /\ txDaily' = [txDaily EXCEPT ![p] = <<>>]
    /\ pc' = [pc EXCEPT ![p] = "am_load"]
    /\ snap' = [snap EXCEPT ![p] = DB]
    /\ last' = NoLast /\ UNCHANGED otherVars
    /\ UNCHANGED <<lockHolder, call, calls, loaded, processed>>
    /\ UNCHANGED dbVars /\ UNCHANGED localVars

amBegin(p) ==
    /\ pc[p] = "am_begin"
    /\ BeginTxWithState(p)
    /\ pc' = [pc EXCEPT ![p] = "am_load"]
    /\ snap' = [snap EXCEPT ![p] = DB]
    /\ last' = NoLast /\ UNCHANGED otherVars
    /\ UNCHANGED <<call, calls, loaded, processed>>
    /\ UNCHANGED dbVars /\ UNCHANGED localVars

amLoad(p) ==
    /\ pc[p] = "am_load"
    /\ state' = [state EXCEPT ![p] = lockState_Load(p)]
    /\ loaded' = [loaded EXCEPT ![p] = lockState_Load(p)]
    /\ alertIDs' = [alertIDs EXCEPT ![p] = <<>>]
    /\ rows' = [rows EXCEPT ![p] = <<>>]
    /\ lastLogTime' = [lastLogTime EXCEPT ![p] = ZeroTime]
    /\ lastLogID' = [lastLogID EXCEPT ![p] = 0]
    /\ boundNow' = [boundNow EXCEPT ![p] = ZeroTime]
    /\ pc' = [pc EXCEPT ![p] = "am_now"]
    /\ last' = NoLast /\ UNCHANGED otherVars
    /\ UNCHANGED <<lockHolder, call, calls, nextDate, snap, processed>>
    /\ UNCHANGED dbVars /\ UNCHANGED txVars

amBoundNow(p) ==
    /\ pc[p] = "am_now"
    /\ boundNow' = [boundNow EXCEPT ![p] = now]
    /\ pc' = [pc EXCEPT ![p] = "am_scan"]
    /\ UNCHANGED <<lockHolder, call, calls, state, rows, alertIDs, lastLogTime,
                   lastLogID, nextDate>>
    /\ UNCHANGED dbVars /\ UNCHANGED txVars /\ UNCHANGED histVars /\ last' = NoLast /\ UNCHANGED otherVars

\* mutant: an empty batch moves LastLogTime and leaves LastLogID as it was
amScanKeepsID(p) ==
    /\ pc[p] = "am_scan"
    /\ LET rs == scanLogs(state[p].LastLogTime, state[p].LastLogID, boundNow[p])
           acc == rowsNext(rs, [alertIDs |-> <<>>, lastLogTime |-> ZeroTime, lastLogID |-> 0])
       IN /\ rows' = [rows EXCEPT ![p] = rs]
          /\ alertIDs' = [alertIDs EXCEPT ![p] = acc.alertIDs]
          /\ lastLogTime' = [lastLogTime EXCEPT ![p] = acc.lastLogTime]
          /\ lastLogID' = [lastLogID EXCEPT ![p] = acc.lastLogID]
          /\ IF Len(acc.alertIDs) > 0
             THEN /\ pc' = [pc EXCEPT ![p] = "am_insert"]
                  /\ state' = state
             ELSE /\ pc' = [pc EXCEPT ![p] = "am_save"]
                  /\ state' = [state EXCEPT ![p].LastLogTime = boundNow[p]]
    /\ UNCHANGED <<lockHolder, call, calls, boundNow, nextDate>>
    /\ UNCHANGED dbVars /\ UNCHANGED txVars /\ UNCHANGED histVars /\ last' = NoLast /\ UNCHANGED otherVars

\* the scanLogs query and the loop over its rows; an empty batch moves the
\* cursor to the upper time bound
amScan(p) ==
    /\ pc[p] = "am_scan"
    /\ LET rs == scanLogs(state[p].LastLogTime, state[p].LastLogID, boundNow[p])
           acc == rowsNext(rs, [alertIDs |-> <<>>, lastLogTime |-> ZeroTime, lastLogID |-> 0])
       IN /\ rows' = [rows EXCEPT ![p] = rs]
          /\ alertIDs' = [alertIDs EXCEPT ![p] = acc.alertIDs]
          /\ lastLogTime' = [lastLogTime EXCEPT ![p] = acc.lastLogTime]
          /\ lastLogID' = [lastLogID EXCEPT ![p] = acc.lastLogID]
          /\ IF Len(acc.alertIDs) > 0
             THEN /\ pc' = [pc EXCEPT ![p] = "am_insert"]
                  /\ state' = state
             ELSE /\ pc' = [pc EXCEPT ![p] = "am_save"]
                  /\ state' = [state EXCEPT ![p].LastLogTime = boundNow[p],
                                            ![p].LastLogID = 0]
    /\ UNCHANGED <<lockHolder, call, calls, boundNow, nextDate>>
    /\ UNCHANGED dbVars /\ UNCHANGED txVars /\ UNCHANGED histVars /\ last' = NoLast /\ UNCHANGED otherVars

\* mutant: a non-empty batch moves LastLogTime and leaves LastLogID as it was
amInsertKeepsID(p) ==
    /\ pc[p] = "am_insert"
    /\ txMetrics' = [txMetrics EXCEPT ![p] = insertMetrics(alertIDs[p])]
    /\ state' = [state EXCEPT ![p].LastLogTime = lastLogTime[p]]
    /\ pc' = [pc EXCEPT ![p] = "am_save"]
    /\ UNCHANGED <<lockHolder, call, calls, boundNow, rows, alertIDs, lastLogTime,
                   lastLogID, nextDate, txBlob, txDaily>>
    /\ UNCHANGED dbVars /\ UNCHANGED histVars /\ last' = NoLast /\ UNCHANGED otherVars

\* a non-empty batch: insert the metrics, move the cursor to the last row
amInsert(p) ==
    /\ pc[p] = "am_insert"
    /\ txMetrics' = [txMetrics EXCEPT ![p] = insertMetrics(alertIDs[p])]
    /\ state' = [state EXCEPT ![p].LastLogTime = lastLogTime[p],
                              ![p].LastLogID = lastLogID[p]]
    /\ pc' = [pc EXCEPT ![p] = "am_save"]
    /\ UNCHANGED <<lockHolder, call, calls, boundNow, rows, alertIDs, lastLogTime,
                   lastLogID, nextDate, txBlob, txDaily>>
    /\ UNCHANGED dbVars /\ UNCHANGED histVars /\ last' = NoLast /\ UNCHANGED otherVars

\* mutant: the state is saved outside the transaction
amSaveOutsideTx(p) ==
    /\ pc[p] = "am_save"
    /\ blob' = state[p]
    /\ pc' = [pc EXCEPT ![p] = "am_commit"]
    /\ UNCHANGED <<now, logs, metrics, daily, lockHolder, call, calls>>
    /\ UNCHANGED txVars /\ UNCHANGED localVars /\ UNCHANGED histVars /\ last' = NoLast /\ UNCHANGED otherVars

amSave(p) ==
    /\ pc[p] = "am_save"
    /\ lockState_Save(p, state[p])
    /\ pc' = [pc EXCEPT ![p] = "am_commit"]
    /\ UNCHANGED <<lockHolder, call, calls, txMetrics, txDaily>>
    /\ UNCHANGED dbVars /\ UNCHANGED localVars /\ UNCHANGED histVars /\ last' = NoLast /\ UNCHANGED otherVars

amCommit(p) ==
    /\ pc[p] = "am_commit"
    /\ Commit(p)
    /\ ReturnTo(p, "UpdateAlertMetrics", "nil")
    /\ processed' = [i \in DOMAIN processed |->
                       processed[i] + Cardinality({k \in 1..Len(rows[p]) : rows[p][k].id = i})]
    /\ Ended(p, "UpdateAlertMetrics", "commit", "nil")
    /\ Leave(p)
    /\ UNCHANGED <<now, logs, calls>>

\* the error each statement of UpdateAlertMetrics is wrapped into
amErrors ==
    [am_begin |-> {"begin tx"}, am_load |-> {"load state"}, am_now |-> {"select bound now"},
     am_scan |-> {"scan logs", "scan alert id"}, am_insert |-> {"insert metrics"},
     am_save |-> {"save state"}, am_commit |-> {"commit"}]

\* mutant: the error is returned and the transaction is left open
amErrorNoRollback(p) ==
    /\ pc[p] \in DOMAIN amErrors
    /\ \E e \in amErrors[pc[p]] :
          /\ ReturnTo(p, "UpdateAlertMetrics", e)
          /\ UNCHANGED <<blob, metrics, daily, lockHolder>>
          /\ UNCHANGED txVars
          /\ Ended(p, "UpdateAlertMetrics", "error", e)
    /\ Leave(p)
    /\ UNCHANGED <<now, logs, calls, processed>>

\* a statement fails: the deferred Rollback runs and the error is returned
amError(p) ==
    /\ pc[p] \in DOMAIN amErrors
    /\ \E e \in amErrors[pc[p]] :
          /\ ReturnTo(p, "UpdateAlertMetrics", e)
          /\ IF pc[p] = "am_begin"
             THEN /\ UNCHANGED <<blob, metrics, daily, lockHolder>>
                  /\ UNCHANGED txVars
             ELSE Rollback(p)
          /\ Ended(p, "UpdateAlertMetrics", "error", e)
    /\ Leave(p)
    /\ UNCHANGED <<now, logs, calls, processed>>

UpdateAlertMetrics(p) ==
    \/ amBegin(p) \/ amLoad(p) \/ amBoundNow(p) \/ amScan(p)
    \/ amInsert(p) \/ amSave(p) \/ amCommit(p) \/ amError(p)

\* ----------------------------------------------- UpdateDailyAlertMetrics
dmBegin(p) ==
    /\ pc[p] = "dm_begin"
    /\ BeginTxWithState(p)
    /\ pc' = [pc EXCEPT ![p] = "dm_load"]
    /\ snap' = [snap EXCEPT ![p] = DB]
    /\ last' = NoLast /\ UNCHANGED otherVars
    /\ UNCHANGED <<call, calls, loaded, processed>>
    /\ UNCHANGED dbVars /\ UNCHANGED localVars

dmLoad(p) ==
    /\ pc[p] = "dm_load"
    /\ state' = [state EXCEPT ![p] = lockState_Load(p)]
    /\ loaded' = [loaded EXCEPT ![p] = lockState_Load(p)]
    /\ nextDate' = [nextDate EXCEPT ![p] = NullTime]
    /\ pc' = [pc EXCEPT ![p] = "dm_next"]
    /\ UNCHANGED <<lockHolder, call, calls, boundNow, rows, alertIDs, lastLogTime,
                   lastLogID, snap, processed>>
    /\ last' = NoLast /\ UNCHANGED otherVars
    /\ UNCHANGED dbVars /\ UNCHANGED txVars

\* the nextDailyMetricsDate query; sql.ErrNoRows counts as "no next date"
dmNextDate(p) ==
    /\ pc[p] = "dm_next"
    /\ LET d == nextDailyMetricsDate(state[p].LastMetricsDate, state[p].LastLogTime)
       IN /\ nextDate' = [nextDate EXCEPT ![p] = d]
          /\ pc' = [pc EXCEPT ![p] = IF d.Valid THEN "dm_insert" ELSE "dm_commit"]
    /\ UNCHANGED <<lockHolder, call, calls, state, boundNow, rows, alertIDs,
                   lastLogTime, lastLogID>>
    /\ UNCHANGED dbVars /\ UNCHANGED txVars /\ UNCHANGED histVars /\ last' = NoLast /\ UNCHANGED otherVars

\* mutant: the daily metrics are inserted and the cursor is not moved
dmInsertKeepsDate(p) ==
    /\ pc[p] = "dm_insert"
    /\ txDaily' = [txDaily EXCEPT ![p] = Append(txDaily[p], Day(nextDate[p].Time))]
    /\ pc' = [pc EXCEPT ![p] = "dm_save"]
    /\ UNCHANGED <<lockHolder, call, calls, boundNow, rows, alertIDs, lastLogTime,
                   lastLogID, nextDate, txBlob, txMetrics, state>>
    /\ UNCHANGED dbVars /\ UNCHANGED histVars /\ last' = NoLast /\ UNCHANGED otherVars

\* mutant: the state that is saved holds the new date and nothing else
dmInsertFresh(p) ==
    /\ pc[p] = "dm_insert"
    /\ txDaily' = [txDaily EXCEPT ![p] = Append(txDaily[p], Day(nextDate[p].Time))]
    /\ state' = [state EXCEPT ![p] = [State EXCEPT !.LastMetricsDate = nextDate[p].Time]]
    /\ pc' = [pc EXCEPT ![p] = "dm_save"]
    /\ UNCHANGED <<lockHolder, call, calls, boundNow, rows, alertIDs, lastLogTime,
                   lastLogID, nextDate, txBlob, txMetrics>>
    /\ UNCHANGED dbVars /\ UNCHANGED histVars /\ last' = NoLast /\ UNCHANGED otherVars

\* insertDailyMetrics for the date found, then the cursor moves to it
dmInsert(p) ==
    /\ pc[p] = "dm_insert"
    /\ txDaily' = [txDaily EXCEPT ![p] = Append(txDaily[p], Day(nextDate[p].Time))]
    /\ state' = [state EXCEPT ![p].LastMetricsDate = nextDate[p].Time]
    /\ pc' = [pc EXCEPT ![p] = "dm_save"]
    /\ UNCHANGED <<lockHolder, call, calls, boundNow, rows, alertIDs, lastLogTime,
                   lastLogID, nextDate, txBlob, txMetrics>>
    /\ UNCHANGED dbVars /\ UNCHANGED histVars /\ last' = NoLast /\ UNCHANGED otherVars

dmSave(p) ==
    /\ pc[p] = "dm_save"
    /\ lockState_Save(p, state[p])
    /\ pc' = [pc EXCEPT ![p] = "dm_commit"]
    /\ UNCHANGED <<lockHolder, call, calls, txMetrics, txDaily>>
    /\ UNCHANGED dbVars /\ UNCHANGED localVars /\ UNCHANGED histVars /\ last' = NoLast /\ UNCHANGED otherVars

dmCommit(p) ==
    /\ pc[p] = "dm_commit"
    /\ Commit(p)
    /\ ReturnTo(p, "UpdateDailyAlertMetrics", "nil")
    /\ Ended(p, "UpdateDailyAlertMetrics", "commit", "nil")
    /\ Leave(p)
    /\ UNCHANGED <<now, logs, calls, processed>>

dmErrors ==
    [dm_begin |-> {"begin tx"}, dm_load |-> {"load state"},
     dm_next |-> {"select next daily metrics date"}, dm_insert |-> {"insert daily metrics"},
     dm_save |-> {"save state"}, dm_commit |-> {"commit"}]

dmError(p) ==
    /\ pc[p] \in DOMAIN dmErrors
    /\ \E e \in dmErrors[pc[p]] :
          /\ ReturnTo(p, "UpdateDailyAlertMetrics", e)
          /\ IF pc[p] = "dm_begin"
             THEN /\ UNCHANGED <<blob, metrics, daily, lockHolder>>
                  /\ UNCHANGED txVars
             ELSE Rollback(p)
          /\ Ended(p, "UpdateDailyAlertMetrics", "error", e)
    /\ Leave(p)
    /\ UNCHANGED <<now, logs, calls, processed>>

UpdateDailyAlertMetrics(p) ==
    \/ dmBegin(p) \/ dmLoad(p) \/ dmNextDate(p)
    \/ dmInsert(p) \/ dmSave(p) \/ dmCommit(p) \/ dmError(p)

\* -------------------------------------------------------------- UpdateAll
\* permission.LimitCheckAny(ctx, permission.System): nil when the context
\* carries the System permission
LimitCheckAny(system) == IF system THEN "nil" ELSE "permission denied"

\* history: p has entered UpdateAlertMetrics from UpdateAll, err being what
\* the permission check returned
Entered(p, err) ==
    /\ last' = [NoLast EXCEPT !.fn = "UpdateAll", !.p = p, !.outcome = "entered",
                              !.error = err]
    /\ UNCHANGED otherVars

\* mutant: the error of the permission check is dropped
UpdateAllUnchecked(p) ==
    /\ pc[p] = "idle"
    /\ calls < MaxCalls
    /\ calls' = calls + 1
    /\ UNCHANGED dbVars /\ UNCHANGED localVars /\ UNCHANGED txVars
    /\ \E system \in BOOLEAN :
          /\ pc' = [pc EXCEPT ![p] = "am_begin"]
          /\ call' = [call EXCEPT ![p] = "UpdateAll"]
          /\ Entered(p, LimitCheckAny(system))
    /\ UNCHANGED <<lockHolder, loaded, snap, processed>>

\* An engine instance calls UpdateAll: the context of the call either
\* carries the System permission, and UpdateAlertMetrics is entered, or it
\* does not, and the error of the check is returned at once.
UpdateAll(p) ==
    /\ pc[p] = "idle"
    /\ calls < MaxCalls
    /\ calls' = calls + 1
    /\ UNCHANGED dbVars /\ UNCHANGED localVars /\ UNCHANGED txVars
    /\ \E system \in BOOLEAN :
          LET err == LimitCheckAny(system)
          IN IF err = "nil"
             THEN /\ pc' = [pc EXCEPT ![p] = "am_begin"]
                  /\ call' = [call EXCEPT ![p] = "UpdateAll"]
                  /\ Entered(p, err)
             ELSE /\ UNCHANGED <<pc, call>>
                  /\ Ended(p, "UpdateAll", "error", err)
    /\ UNCHANGED <<lockHolder, loaded, snap, processed>>

\* ------------------------------------------------------------------ Next
Next ==
    \/ Tick
    \/ AppendLog
    \/ \E p \in Procs : Invoke(p)
    \/ \E p \in Procs : UpdateAll(p)
    \/ \E p \in Procs : UpdateAlertMetrics(p)
    \/ \E p \in Procs : UpdateDailyAlertMetrics(p)

Spec == Init /\ [][Next]_vars

\* ======================================================= the root command
\* RootCmd.RunE starts the process: it reads the configuration, brings the
\* schema up to date, opens the database handle (through the switchover
\* handler when a next database is configured), builds the app, starts
\* handleShutdown and runs the app.  Every call that can fail is one step.
MaxSignals == 3         \* shutdown signals the process is ever sent
shutdownTimeout == 2    \* timer ticks until the shutdown context expires
ChanCap == 2            \* make(chan os.Signal, 2)

ErrDBRequired == [wrap |-> "", field |-> "db-url", reason |-> "is required"]
Failure(msg) == [wrap |-> "", field |-> "", reason |-> msg]
\* errors.Wrap: nil stays nil, anything else carries the message in front
Wrap(e, msg) == IF e = NilErr THEN NilErr ELSE [e EXCEPT !.wrap = msg]

Flags == [db_url : {"", "postgres://old"},
          db_url_next : {"", "postgres://next"},
          api_only : BOOLEAN]

\* the process is started with any configuration
InitApp ==
    /\ InitMetrics
    /\ flags \in Flags
    /\ RootNotStarted
    /\ SwitchoverIdle

\* `return err` in RunE: the process ends
Return(e) ==
    /\ ret' = [returned |-> TRUE, err |-> e]
    /\ rootPC' = "done"

\* mutant: getConfig does not look at the database URL
getConfigUnchecked(f, tlsErr) ==
    LET c == [DBURL |-> f.db_url, DBURLNext |-> f.db_url_next, APIOnly |-> f.api_only]
    IN IF tlsErr THEN [cfg |-> c, err |-> Failure("tls config")]
       ELSE [cfg |-> c, err |-> NilErr]

\* getConfig: the configuration from the flags; the database URL is
\* required, and the TLS configuration may fail to load
getConfig(f, tlsErr) ==
    LET c == [DBURL |-> f.db_url, DBURLNext |-> f.db_url_next, APIOnly |-> f.api_only]
    IN IF c.DBURL = "" THEN [cfg |-> c, err |-> ErrDBRequired]
       ELSE IF tlsErr THEN [cfg |-> c, err |-> Failure("tls config")]
       ELSE [cfg |-> c, err |-> NilErr]

\* viper.ReadInConfig and initPromServer
rootReadConfig ==
    /\ rootPC = "start"
    /\ \E outcome \in {"ok", "read config", "prometheus"} :
          CASE outcome = "ok" -> rootPC' = "getConfig" /\ UNCHANGED ret
            [] outcome = "read config" -> Return(Wrap(Failure("read"), "read config"))
            [] outcome = "prometheus" -> Return(Failure("prometheus"))
    /\ UNCHANGED <<run, flags, cfg, migrations, connectors, h, db, app>>
    /\ UNCHANGED shutdownVars /\ UNCHANGED nonAppVars

\* cfg, err := getConfig(ctx); if err != nil { return err }
rootGetConfig ==
    /\ rootPC = "getConfig"
    /\ \E tlsErr \in BOOLEAN :
          LET r == getConfig(flags, tlsErr)
          IN /\ cfg' = r.cfg
             /\ IF r.err # NilErr
                THEN Return(r.err)
                ELSE rootPC' = "tracing" /\ UNCHANGED ret
    /\ UNCHANGED <<run, flags, migrations, connectors, h, db, app>>
    /\ UNCHANGED shutdownVars /\ UNCHANGED nonAppVars

\* configTracing and url.Parse(cfg.DBURL)
rootTracing ==
    /\ rootPC = "tracing"
    /\ \E outcome \in {"ok", "config tracing", "parse old URL"} :
          IF outcome = "ok"
          THEN rootPC' = "migrate" /\ UNCHANGED ret
          ELSE Return(Wrap(Failure(outcome), outcome))
    /\ UNCHANGED <<run, flags, cfg, migrations, connectors, h, db, app>>
    /\ UNCHANGED shutdownVars /\ UNCHANGED nonAppVars

\* migrate.VerifyAll in API-only mode, migrate.ApplyAll otherwise
rootMigrate ==
    /\ rootPC = "migrate"
    /\ \E ok \in BOOLEAN :
          IF cfg.APIOnly
          THEN IF ok
               THEN migrations' = "verified" /\ rootPC' = "connect" /\ UNCHANGED ret
               ELSE UNCHANGED migrations
                    /\ Return(Wrap(Failure("verify"), "verify migrations"))
          ELSE IF ok
               THEN migrations' = "applied" /\ rootPC' = "connect" /\ UNCHANGED ret
               ELSE UNCHANGED migrations
                    /\ Return(Wrap(Failure("apply"), "apply migrations"))
    /\ UNCHANGED <<run, flags, cfg, connectors, h, db, app>>
    /\ UNCHANGED shutdownVars /\ UNCHANGED nonAppVars

\* dbc, err := wrappedDriver.OpenConnector(cfg.DBURL)
rootConnect ==
    /\ rootPC = "connect"
    /\ \E ok \in BOOLEAN :
          IF ok
          THEN connectors' = connectors \cup {cfg.DBURL}
               /\ rootPC' = "openDB" /\ UNCHANGED ret
          ELSE UNCHANGED connectors
               /\ Return(Wrap(Failure("connect"), "connect to postgres"))
    /\ UNCHANGED <<run, flags, cfg, migrations, h, db, app>>
    /\ UNCHANGED shutdownVars /\ UNCHANGED nonAppVars

\* mutant: the switchover branch is taken whenever the old URL is set
rootOpenDBAlways ==
    /\ rootPC = "openDB"
    /\ IF cfg.DBURL # ""
       THEN \E outcome \in {"ok", "parse next URL", "connect to postres (next)",
                            "init changeover handler"} :
               /\ connectors' = IF outcome \in {"ok", "init changeover handler"}
                                THEN connectors \cup {cfg.DBURLNext}
                                ELSE connectors
               /\ IF outcome = "ok"
                  THEN /\ h' = "handler"
                       /\ db' = "h.DB()"
                       /\ rootPC' = "newApp"
                       /\ UNCHANGED ret
                  ELSE /\ UNCHANGED <<h, db>>
                       /\ Return(Wrap(Failure(outcome), outcome))
       ELSE /\ db' = "sql.OpenDB(dbc)"
            /\ rootPC' = "newApp"
            /\ UNCHANGED <<connectors, h, ret>>
    /\ UNCHANGED <<run, flags, cfg, migrations, app>>
    /\ UNCHANGED shutdownVars /\ UNCHANGED nonAppVars

\* if cfg.DBURLNext != "": the next URL is parsed, its connector opened and
\* the switchover handler created, and db is the handler's handle; else db
\* is opened on the connector of the old database
rootOpenDB ==
    /\ rootPC = "openDB"
    /\ IF cfg.DBURLNext # ""
       THEN \E outcome \in {"ok", "parse next URL", "connect to postres (next)",
                            "init changeover handler"} :
               /\ connectors' = IF outcome \in {"ok", "init changeover handler"}
                                THEN connectors \cup {cfg.DBURLNext}
                                ELSE connectors
               /\ IF outcome = "ok"
                  THEN /\ h' = "handler"
                       /\ db' = "h.DB()"
                       /\ rootPC' = "newApp"
                       /\ UNCHANGED ret
                  ELSE /\ UNCHANGED <<h, db>>
                       /\ Return(Wrap(Failure(outcome), outcome))
       ELSE /\ db' = "sql.OpenDB(dbc)"
            /\ rootPC' = "newApp"
            /\ UNCHANGED <<connectors, h, ret>>
    /\ UNCHANGED <<run, flags, cfg, migrations, app>>
    /\ UNCHANGED shutdownVars /\ UNCHANGED nonAppVars

\* app, err := NewApp(cfg, db); h.SetApp(app); go handleShutdown(ctx, fn)
rootNewApp ==
    /\ rootPC = "newApp"
    /\ \E ok \in BOOLEAN :
          IF ok
          THEN /\ app' = db
               /\ hsPC' = "wait"
               /\ rootPC' = "run"
               /\ UNCHANGED ret
          ELSE /\ UNCHANGED <<app, hsPC>>
               /\ Return(Wrap(Failure("new app"), "init app"))
    /\ UNCHANGED <<run, flags, cfg, migrations, connectors, h, db>>
    /\ UNCHANGED <<sigSent, shutdownSignalCh, goPC, sCtx, elapsed, fnPC, fnLog>>
    /\ UNCHANGED nonAppVars

\* return errors.Wrap(app.Run(ctx), "run app"): Run fails at any time, and
\* returns nil once the app was shut down
rootRun ==
    /\ rootPC = "run"
    /\ \E ok \in BOOLEAN :
          IF ok
          THEN fnPC = "returned" /\ Return(Wrap(NilErr, "run app"))
          ELSE Return(Wrap(Failure("run"), "run app"))
    /\ UNCHANGED <<run, flags, cfg, migrations, connectors, h, db, app>>
    /\ UNCHANGED shutdownVars /\ UNCHANGED nonAppVars

RootCmd ==
    \/ rootReadConfig
    \/ rootGetConfig
    \/ rootTracing
    \/ rootMigrate
    \/ rootConnect
    \/ rootOpenDB
    \/ rootNewApp
    \/ rootRun

\* --------------------------------------------------------- handleShutdown
\* cancel(): the first cancellation of a context sets its cause
cancel(c, cause) ==
    IF c.state = "active" THEN [c EXCEPT !.state = "cancelled", !.cause = cause] ELSE c

\* The process is sent a shutdown signal: signal.Notify passes it to the
\* channel without blocking, so it is dropped when the buffer is full.
Signal ==
    /\ rootPC # "done"
    /\ sigSent < MaxSignals
    /\ sigSent' = sigSent + 1
    /\ shutdownSignalCh' = IF shutdownSignalCh < ChanCap
                           THEN shutdownSignalCh + 1 ELSE shutdownSignalCh
    /\ UNCHANGED <<hsPC, goPC, sCtx, elapsed, fnPC, fnLog>>
    /\ UNCHANGED rootVars /\ UNCHANGED nonAppVars

\* mutant: fn goes to app.Shutdown(ctx) at once
fnCallSkipsAbort ==
    fnPC' = "Shutdown" /\ fnLog' = fnLog \o <<"fn", "Shutdown">>

\* the call of fn: h.Abort() comes first when there is a handler
fnCall ==
    IF h # "nil"
    THEN fnPC' = "Abort" /\ fnLog' = fnLog \o <<"fn", "Abort">>
    ELSE fnPC' = "Shutdown" /\ fnLog' = fnLog \o <<"fn", "Shutdown">>

\* mutant: the shutdown context has no deadline (context.WithCancel)
hsReceiveNoDeadline ==
    /\ rootPC = "run" /\ hsPC = "wait"
    /\ shutdownSignalCh > 0
    /\ shutdownSignalCh' = shutdownSignalCh - 1
    /\ sCtx' = [state |-> "active", cause |-> "none", deadline |-> FALSE]
    /\ elapsed' = 0
    /\ goPC' = "wait"
    /\ fnCall
    /\ hsPC' = "running"
    /\ UNCHANGED sigSent
    /\ UNCHANGED rootVars /\ UNCHANGED nonAppVars

\* <-shutdownSignalCh; sCtx, cancel := context.WithTimeout(ctx,
\* shutdownTimeout); go func() {...}(); fn(sCtx)
hsReceive ==
    /\ rootPC = "run" /\ hsPC = "wait"
    /\ shutdownSignalCh > 0
    /\ shutdownSignalCh' = shutdownSignalCh - 1
    /\ sCtx' = [state |-> "active", cause |-> "none", deadline |-> TRUE]
    /\ elapsed' = 0
    /\ goPC' = "wait"
    /\ fnCall
    /\ hsPC' = "running"
    /\ UNCHANGED sigSent
    /\ UNCHANGED rootVars /\ UNCHANGED nonAppVars

\* mutant: the goroutine logs the second signal and does not cancel
goReceiveNoCancel ==
    /\ rootPC = "run" /\ goPC = "wait"
    /\ shutdownSignalCh > 0
    /\ shutdownSignalCh' = shutdownSignalCh - 1
    /\ goPC' = "done"
    /\ UNCHANGED <<sigSent, hsPC, sCtx, elapsed, fnPC, fnLog>>
    /\ UNCHANGED rootVars /\ UNCHANGED nonAppVars

\* go func() { <-shutdownSignalCh; ...; cancel() }()
goReceive ==
    /\ rootPC = "run" /\ goPC = "wait"
    /\ shutdownSignalCh > 0
    /\ shutdownSignalCh' = shutdownSignalCh - 1
    /\ sCtx' = cancel(sCtx, "second signal")
    /\ goPC' = "done"
    /\ UNCHANGED <<sigSent, hsPC, elapsed, fnPC, fnLog>>
    /\ UNCHANGED rootVars /\ UNCHANGED nonAppVars

\* the timer of context.WithTimeout: the context expires when
\* shutdownTimeout has passed since it was created
sCtxTimer ==
    /\ rootPC = "run"
    /\ sCtx.state = "active"
    /\ elapsed < shutdownTimeout
    /\ elapsed' = elapsed + 1
    /\ sCtx' = IF sCtx.deadline /\ elapsed' = shutdownTimeout
               THEN cancel(sCtx, "deadline exceeded") ELSE sCtx
    /\ UNCHANGED <<sigSent, shutdownSignalCh, hsPC, goPC, fnPC, fnLog>>
    /\ UNCHANGED rootVars /\ UNCHANGED nonAppVars

\* h.Abort() returns and fn goes on to app.Shutdown(ctx)
fnAbort ==
    /\ rootPC = "run" /\ fnPC = "Abort"
    /\ fnPC' = "Shutdown"
    /\ fnLog' = Append(fnLog, "Shutdown")
    /\ UNCHANGED <<sigSent, shutdownSignalCh, hsPC, goPC, sCtx, elapsed>>
    /\ UNCHANGED rootVars /\ UNCHANGED nonAppVars

\* app.Shutdown(ctx) returns, fn returns, and handleShutdown returns through
\* its deferred cancel()
fnShutdown ==
    /\ rootPC = "run" /\ fnPC = "Shutdown"
    /\ fnPC' = "returned"
    /\ hsPC' = "returned"
    /\ sCtx' = cancel(sCtx, "deferred")
    /\ UNCHANGED <<sigSent, shutdownSignalCh, goPC, elapsed, fnLog>>
    /\ UNCHANGED rootVars /\ UNCHANGED nonAppVars

handleShutdown ==
    \/ hsReceive
    \/ goReceive
    \/ sCtxTimer
    \/ fnAbort
    \/ fnShutdown

NextApp ==
    \/ RootCmd
    \/ Signal
    \/ handleShutdown

SpecApp == InitApp /\ [][NextApp]_vars

\* ======================================================= the subcommands
\* switchover-shell, migrate and self-test: each is a RunE of its own, run
\* instead of the root command's.  rootPC is the position of the RunE that
\* runs, cfg its local cfg (c, cf) and ret what it returned.
GitVersion == "v1"      \* version.GitVersion() of this build

\* the command line and the build: the subcommand, its flags, and the
\* version of the bundled UI ("" when no UI is bundled)
CmdFlags == [command : {"switchover-shell", "migrate", "self-test"},
             db_url : {"", "postgres://old"},
             db_url_next : {"", "postgres://next"},
             api_only : {FALSE},
             down : {"", "m1"},
             up : {"", "m2"},
             offline : BOOLEAN,
             AppVersion : {"", "v1", "v2"}]

\* a flag is given only to the subcommand that has it
InitCmd ==
    /\ InitMetrics
    /\ flags \in CmdFlags
    /\ flags.command # "migrate" => flags.down = "" /\ flags.up = ""
    /\ flags.command # "self-test" => ~flags.offline /\ flags.AppVersion = ""
    /\ RootNotStarted
    /\ SwitchoverIdle

\* validation.NewFieldError("DBURLNext", "must not be empty for switchover")
ErrDBURLNext == [wrap |-> "", field |-> "DBURLNext",
                 reason |-> "must not be empty for switchover"]

\* the RunE has called name, which returned nil (ok) or an error
Called(r, name, ok) == [r EXCEPT !.calls = Append(r.calls, [name |-> name, ok |-> ok])]

\* ------------------------------------------------------ switchover-shell
\* mutant: the shell is started on whatever getConfig returned
switchGetConfigNoNext ==
    /\ flags.command = "switchover-shell" /\ rootPC = "start"
    /\ \E tlsErr \in BOOLEAN :
          LET r == getConfig(flags, tlsErr)
          IN /\ cfg' = r.cfg
             /\ IF r.err # NilErr
                THEN Return(r.err)
                ELSE rootPC' = "RunShell" /\ UNCHANGED ret
    /\ UNCHANGED <<run, flags, migrations, connectors, h, db, app>>
    /\ UNCHANGED shutdownVars /\ UNCHANGED nonAppVars

\* cfg, err := getConfig(ctx); if err != nil { return err };
\* if cfg.DBURLNext == "" { return validation.NewFieldError(...) }
switchGetConfig ==
    /\ flags.command = "switchover-shell" /\ rootPC = "start"
    /\ \E tlsErr \in BOOLEAN :
          LET r == getConfig(flags, tlsErr)
          IN /\ cfg' = r.cfg
             /\ IF r.err # NilErr
                THEN Return(r.err)
                ELSE IF r.cfg.DBURLNext = ""
                THEN Return(ErrDBURLNext)
                ELSE rootPC' = "RunShell" /\ UNCHANGED ret
    /\ UNCHANGED <<run, flags, migrations, connectors, h, db, app>>
    /\ UNCHANGED shutdownVars /\ UNCHANGED nonAppVars

\* return dbsync.RunShell(log, cfg.DBURL, cfg.DBURLNext)
switchRunShell ==
    /\ flags.command = "switchover-shell" /\ rootPC = "RunShell"
    /\ \E ok \in BOOLEAN :
          /\ run' = Called(run, "RunShell", ok)
          /\ Return(IF ok THEN NilErr ELSE Failure("shell"))
    /\ UNCHANGED <<flags, cfg, migrations, connectors, h, db, app>>
    /\ UNCHANGED shutdownVars /\ UNCHANGED nonAppVars

switchCmd ==
    \/ switchGetConfig
    \/ switchRunShell

\* --------------------------------------------------------------- migrate
\* viper.ReadInConfig: a missing file is ignored, any other error returned
migrateReadConfig ==
    /\ flags.command = "migrate" /\ rootPC = "start"
    /\ \E ok \in BOOLEAN :
          IF ok
          THEN rootPC' = "getConfig" /\ UNCHANGED ret
          ELSE Return(Wrap(Failure("read"), "read config"))
    /\ UNCHANGED <<run, flags, cfg, migrations, connectors, h, db, app>>
    /\ UNCHANGED shutdownVars /\ UNCHANGED nonAppVars

\* where RunE goes once the DOWN step is over or was not asked for
migrateAfterDown ==
    IF flags.up # "" \/ flags.down = ""
    THEN rootPC' = "up" /\ UNCHANGED ret
    ELSE Return(NilErr)

\* c, err := getConfig(ctx); if err != nil { return err }; then
\* if down != "" the DOWN step comes first
migrateGetConfig ==
    /\ flags.command = "migrate" /\ rootPC = "getConfig"
    /\ \E tlsErr \in BOOLEAN :
          LET r == getConfig(flags, tlsErr)
          IN /\ cfg' = r.cfg
             /\ IF r.err # NilErr
                THEN Return(r.err)
                ELSE IF flags.down # ""
                THEN rootPC' = "down" /\ UNCHANGED ret
                ELSE migrateAfterDown
    /\ UNCHANGED <<run, flags, migrations, connectors, h, db, app>>
    /\ UNCHANGED shutdownVars /\ UNCHANGED nonAppVars

\* mutant: the error of migrate.Down is logged and RunE goes on
migrateDownGoesOn ==
    /\ flags.command = "migrate" /\ rootPC = "down"
    /\ \E ok \in BOOLEAN :
          /\ run' = Called(run, "Down", ok)
          /\ migrations' = IF ok THEN "down" ELSE migrations
          /\ migrateAfterDown
    /\ UNCHANGED <<flags, cfg, connectors, h, db, app>>
    /\ UNCHANGED shutdownVars /\ UNCHANGED nonAppVars

\* n, err := migrate.Down(ctx, c.DBURL, down);
\* if err != nil { return errors.Wrap(err, "apply DOWN migrations") }
migrateDown ==
    /\ flags.command = "migrate" /\ rootPC = "down"
    /\ \E ok \in BOOLEAN :
          /\ run' = Called(run, "Down", ok)
          /\ IF ok
             THEN migrations' = "down" /\ migrateAfterDown
             ELSE UNCHANGED migrations
                  /\ Return(Wrap(Failure("down"), "apply DOWN migrations"))
    /\ UNCHANGED <<flags, cfg, connectors, h, db, app>>
    /\ UNCHANGED shutdownVars /\ UNCHANGED nonAppVars

\* n, err := migrate.Up(ctx, c.DBURL, up);
\* if err != nil { return errors.Wrap(err, "apply UP migrations") }; return nil
migrateUp ==
    /\ flags.command = "migrate" /\ rootPC = "up"
    /\ \E ok \in BOOLEAN :
          /\ run' = Called(run, "Up", ok)
          /\ IF ok
             THEN /\ migrations' = IF flags.up = "" THEN "up: all" ELSE "up"
                  /\ Return(NilErr)
             ELSE /\ UNCHANGED migrations
                  /\ Return(Wrap(Failure("up"), "apply UP migrations"))
    /\ UNCHANGED <<flags, cfg, connectors, h, db, app>>
    /\ UNCHANGED shutdownVars /\ UNCHANGED nonAppVars

migrateCmd ==
    \/ migrateReadConfig
    \/ migrateGetConfig
    \/ migrateDown
    \/ migrateUp

\* ------------------------------------------------------------- self-test
\* mutant: result sets failed to what the last check gave
resultLast(r, name, ok) == [Called(r, name, ok) EXCEPT !.failed = ~ok]

\* result := func(name string, err error): a check that fails sets failed
result(r, name, ok) == [Called(r, name, ok) EXCEPT !.failed = r.failed \/ ~ok]

\* only do version check if UI is bundled
testVersion ==
    /\ flags.command = "self-test" /\ rootPC = "start"
    /\ run' = IF flags.AppVersion # ""
              THEN result(run, "Version", GitVersion = flags.AppVersion)
              ELSE run
    /\ rootPC' = "getConfig"
    /\ UNCHANGED <<flags, cfg, ret, migrations, connectors, h, db, app>>
    /\ UNCHANGED shutdownVars /\ UNCHANGED nonAppVars

\* cf, err := getConfig(ctx); if errors.Is(err, ErrDBRequired) { err = nil };
\* if err != nil { return err }
testGetConfig ==
    /\ flags.command = "self-test" /\ rootPC = "getConfig"
    /\ \E tlsErr \in BOOLEAN :
          LET r == getConfig(flags, tlsErr)
              err == IF r.err = ErrDBRequired THEN NilErr ELSE r.err
          IN /\ cfg' = r.cfg
             /\ IF err # NilErr
                THEN Return(err)
                ELSE rootPC' = "DB" /\ UNCHANGED ret
    /\ UNCHANGED <<run, flags, migrations, connectors, h, db, app>>
    /\ UNCHANGED shutdownVars /\ UNCHANGED nonAppVars

\* the services to check: the three fixed ones, OIDC and GitHub when the
\* stored configuration enables them, none when offline
services(oidc, github, offlineOnly) ==
    IF offlineOnly THEN <<>>
    ELSE <<"Twilio", "Mailgun", "Slack">>
         \o (IF oidc THEN <<"OIDC">> ELSE <<>>)
         \o (IF github THEN <<"GitHub">> ELSE <<>>)

\* if cf.DBURL != "" && !offlineOnly { result("DB", loadConfigDB()) }: the
\* stored configuration is read only when the check runs and succeeds, and
\* is the zero configuration otherwise; then serviceList is built
testDB ==
    /\ flags.command = "self-test" /\ rootPC = "DB"
    /\ IF cfg.DBURL # "" /\ ~flags.offline
       THEN \E ok \in BOOLEAN, oidc \in BOOLEAN, github \in BOOLEAN :
               /\ ~ok => ~oidc /\ ~github
               /\ run' = [result(run, "DB", ok) EXCEPT
                             !.serviceList = services(oidc, github, flags.offline)]
       ELSE run' = [run EXCEPT !.serviceList = services(FALSE, FALSE, flags.offline)]
    /\ rootPC' = "services"
    /\ UNCHANGED <<flags, cfg, ret, migrations, connectors, h, db, app>>
    /\ UNCHANGED shutdownVars /\ UNCHANGED nonAppVars

\* for _, s := range serviceList { resp, err := http.Get(s.baseUrl);
\* result(s.name, err) }: one turn of the loop
testService ==
    /\ flags.command = "self-test" /\ rootPC = "services"
    /\ run.serviceList # <<>>
    /\ \E ok \in BOOLEAN :
          run' = [result(run, Head(run.serviceList), ok) EXCEPT
                     !.serviceList = Tail(run.serviceList)]
    /\ UNCHANGED <<flags, rootPC, cfg, ret, migrations, connectors, h, db, app>>
    /\ UNCHANGED shutdownVars /\ UNCHANGED nonAppVars

\* result("DST Rules", dstCheck()); if failed { return errors.New("one or
\* more checks failed.") }; return nil
testDST ==
    /\ flags.command = "self-test" /\ rootPC = "services"
    /\ run.serviceList = <<>>
    /\ \E ok \in BOOLEAN :
          /\ run' = result(run, "DST Rules", ok)
          /\ Return(IF run'.failed THEN Failure("one or more checks failed.")
                    ELSE NilErr)
    /\ UNCHANGED <<flags, cfg, migrations, connectors, h, db, app>>
    /\ UNCHANGED shutdownVars /\ UNCHANGED nonAppVars

testCmd ==
    \/ testVersion
    \/ testGetConfig
    \/ testDB
    \/ testService
    \/ testDST

NextCmd ==
    \/ switchCmd
    \/ migrateCmd
    \/ testCmd

SpecCmd == InitCmd /\ [][NextCmd]_vars

\* =================================================== switchover subsystem
\* The switchover handler, routing connector, coordination bus and sync
\* engine, as the design document describes them: the phase row on old moves
\* by compare-and-swap and every move adds one to its version (sections 3
\* and 5); the moves are those of the table of section 4.6; control messages
\* are delivered any number of times and in any order (section 4.7).
FreezeBudget == 1       \* leader's timer ticks that make up freeze_budget
MaxWrites == 2          \* write transactions the applications ever begin
TailBatch == 2          \* rows of one apply transaction (1000 in the design)

Phase == switchover_state.phase
Version == switchover_state.version

\* the leader is the node with the lowest node_id among the live ones; the
\* heartbeats are taken as recent, except where the leader checks them
Leader == CHOOSE n \in Nodes : \A m \in Nodes : NodeId(n) <= NodeId(m)

\* a phase transition: compare-and-swap on the row, version + 1, and the
\* message that announces it, stamped with the new version
Transition(to, type) ==
    /\ switchover_state' = [phase |-> to, version |-> Version + 1]
    /\ bus' = bus \cup {[type |-> type, version |-> Version + 1, sender |-> Leader]}

\* idle --operator enable--> sync_pending
Enable ==
    /\ Phase = "idle"
    /\ Transition("sync_pending", "enable")
    /\ ev' = NoEv
    /\ UNCHANGED <<acked, freezeT, c2, c6, conn, c5, writes>>
    /\ UNCHANGED nonSwitchVars

\* sync_pending --all nodes ack--> syncing: the sync engine starts, installs
\* the triggers and resumes from the high-water mark of the bulk copy
StartSync ==
    /\ Phase = "sync_pending"
    /\ \A n \in Nodes : c6[n].version = Version
    /\ Transition("syncing", "syncing")
    /\ c5' = [c5 EXCEPT !.triggers = TRUE, !.installed = TRUE, !.cursor = c5.max_id]
    /\ ev' = NoEv
    /\ UNCHANGED <<acked, freezeT, c2, c6, conn, writes>>
    /\ UNCHANGED nonSwitchVars

\* syncing --caught up--> ready
Ready ==
    /\ Phase = "syncing"
    /\ c5.cursor = c5.max_id
    /\ Transition("ready", "ready")
    /\ ev' = NoEv
    /\ UNCHANGED <<acked, freezeT, c2, c6, conn, c5, writes>>
    /\ UNCHANGED nonSwitchVars

\* ready --operator execute on leader--> executing: broadcast freeze
Execute ==
    /\ Phase = "ready"
    /\ Transition("executing", "freeze")
    /\ acked' = {}
    /\ freezeT' = 0
    /\ ev' = NoEv
    /\ UNCHANGED <<c2, c6, conn, c5, writes>>
    /\ UNCHANGED nonSwitchVars

\* the leader's freeze timer
FreezeTick ==
    /\ Phase = "executing"
    /\ freezeT < FreezeBudget
    /\ freezeT' = freezeT + 1
    /\ ev' = NoEv
    /\ UNCHANGED <<switchover_state, bus, acked, c2, c6, conn, c5, writes>>
    /\ UNCHANGED nonSwitchVars

\* mutant: the leader flips when the timer allows it, whoever has acked
FlipDecideUnacked ==
    /\ Phase = "executing"
    /\ freezeT < FreezeBudget
    /\ \E hb \in SUBSET Nodes :
          ev' = [NoEv EXCEPT !.kind = "flip", !.node = Leader, !.heartbeats = hb]
    /\ Transition("executing'", "flip")
    /\ UNCHANGED <<acked, freezeT, c2, c6, conn, c5, writes>>
    /\ UNCHANGED nonSwitchVars

\* executing --all nodes ack frozen--> executing': the leader issues flip
\* only after (a) every node is frozen, (b) change_log.max_id is fully
\* applied on next, (c) a final heartbeat round, which finds the nodes hb
\* live, confirms node liveness
FlipDecide ==
    /\ Phase = "executing"
    /\ freezeT < FreezeBudget
    /\ acked = Nodes
    /\ c5.cursor = c5.max_id
    /\ \E hb \in SUBSET Nodes :
          /\ hb = Nodes
          /\ ev' = [NoEv EXCEPT !.kind = "flip", !.node = Leader, !.heartbeats = hb]
    /\ Transition("executing'", "flip")
    /\ UNCHANGED <<acked, freezeT, c2, c6, conn, c5, writes>>
    /\ UNCHANGED nonSwitchVars

\* mutant: the leader lets the freeze budget pass and keeps waiting
AbortTimeoutNever ==
    /\ Phase = "executing"
    /\ freezeT > FreezeBudget
    /\ Transition("aborted", "abort")
    /\ ev' = NoEv
    /\ UNCHANGED <<acked, freezeT, c2, c6, conn, c5, writes>>
    /\ UNCHANGED nonSwitchVars

\* the acks did not all arrive within freeze_budget: on timeout -> aborted
AbortTimeout ==
    /\ Phase = "executing"
    /\ freezeT = FreezeBudget
    /\ Transition("aborted", "abort")
    /\ ev' = NoEv
    /\ UNCHANGED <<acked, freezeT, c2, c6, conn, c5, writes>>
    /\ UNCHANGED nonSwitchVars

\* any non-complete --error / operator abort--> aborted: C2 remains old; the
\* sync engine stops and the triggers stay in place.  The handler's Abort,
\* which the shutdown function of the root command calls, is this move.
Abort ==
    /\ Phase \notin {"complete", "aborted"}
    /\ Transition("aborted", "abort")
    /\ ev' = NoEv
    /\ UNCHANGED <<acked, freezeT, c2, c6, conn, c5, writes>>
    /\ UNCHANGED nonSwitchVars

\* set_mode(target, version): swaps the routing target; a decision of a
\* stale version is rejected
set_mode(c, target, version) ==
    IF version < c.version THEN c
    ELSE [c EXCEPT !.target = target, !.version = version]

\* what a delivery does to the connector of the receiving node
Apply(c, m) ==
    CASE m.type = "freeze" -> [c EXCEPT !.frozen = TRUE]
      [] m.type = "flip" -> [set_mode(c, "next", m.version) EXCEPT !.frozen = FALSE]
      [] m.type = "abort" -> IF c.target = "old" THEN [c EXCEPT !.frozen = FALSE] ELSE c
      [] OTHER -> c

\* the row after node n has applied m: the first node to receive flip moves
\* it from executing' to complete
Completed(m) ==
    IF m.type = "flip" /\ Phase = "executing'"
    THEN [phase |-> "complete", version |-> Version + 1]
    ELSE switchover_state

\* what a delivery to node n came to: the version of the message and the
\* version the handler had when it arrived
Delivered(n, m, verdict) ==
    ev' = [NoEv EXCEPT !.kind = "deliver", !.tag = m.version,
                       !.cver = c6[n].version, !.verdict = verdict]

Dropped(n, m, verdict) ==
    /\ ev' = [NoEv EXCEPT !.kind = "deliver", !.verdict = verdict]
    /\ UNCHANGED <<switchover_state, c2, c6>>

\* the handler of node n acts on m
Applied(n, m) ==
    /\ Delivered(n, m, "applied")
    /\ c6' = [c6 EXCEPT ![n] = [version |-> m.version, seen |-> {m}]]
    /\ c2' = [c2 EXCEPT ![n] = Apply(c2[n], m)]
    /\ switchover_state' = Completed(m)

\* mutant: the handler applies whatever it has not just seen, stale or not
DeliverStale(n, m) ==
    /\ m \in bus /\ m.type # "ack"
    /\ IF m \in c6[n].seen
       THEN Dropped(n, m, "duplicate")
       ELSE Applied(n, m)
    /\ UNCHANGED <<bus, acked, freezeT, conn, c5, writes>>
    /\ UNCHANGED nonSwitchVars

\* mutant: the handler keeps no record of the msg_ids it has processed
DeliverTwice(n, m) ==
    /\ m \in bus /\ m.type # "ack"
    /\ IF m.version < c6[n].version
       THEN Dropped(n, m, "stale")
       ELSE Applied(n, m)
    /\ UNCHANGED <<bus, acked, freezeT, conn, c5, writes>>
    /\ UNCHANGED nonSwitchVars

\* The bus delivers message m to node n: a message already processed
\* (msg_id) or older than the handler's version is dropped; any other is
\* applied and its version becomes the handler's.  The handler remembers
\* the msg_ids of its current version; older ones are stale anyway.
Deliver(n, m) ==
    /\ m \in bus /\ m.type # "ack"
    /\ IF m \in c6[n].seen
       THEN Dropped(n, m, "duplicate")
       ELSE IF m.version < c6[n].version
       THEN Dropped(n, m, "stale")
       ELSE Applied(n, m)
    /\ UNCHANGED <<bus, acked, freezeT, conn, c5, writes>>
    /\ UNCHANGED nonSwitchVars

\* a frozen node whose in-flight transaction has completed acks the freeze
SendAck(n) ==
    /\ c2[n].frozen
    /\ conn[n].state # "tx"
    /\ LET ack == [type |-> "ack", version |-> c6[n].version, sender |-> n]
       IN ack \notin bus /\ bus' = bus \cup {ack}
    /\ ev' = NoEv
    /\ UNCHANGED <<switchover_state, acked, freezeT, c2, c6, conn, c5, writes>>
    /\ UNCHANGED nonSwitchVars

\* the ack of node n reaches the leader within freeze_budget
ReceiveAck(n) ==
    /\ Phase = "executing"
    /\ freezeT < FreezeBudget
    /\ [type |-> "ack", version |-> Version, sender |-> n] \in bus
    /\ n \notin acked
    /\ acked' = acked \cup {n}
    /\ ev' = NoEv
    /\ UNCHANGED <<switchover_state, bus, freezeT, c2, c6, conn, c5, writes>>
    /\ UNCHANGED nonSwitchVars

\* ----------------------------------------------- routing connector (C2)
\* acquire(): a connection bound to the active backend and tagged with the
\* connector's current version
Acquire(n) ==
    /\ conn[n] = NoConn
    /\ conn' = [conn EXCEPT ![n] = [state |-> "idle", target |-> c2[n].target,
                                    tag |-> c2[n].version]]
    /\ ev' = NoEv
    /\ UNCHANGED <<switchover_state, bus, acked, freezeT, c2, c6, c5, writes>>
    /\ UNCHANGED nonSwitchVars

\* a statement on the connection of node n, run or rejected
Statement(n, verdict) ==
    ev' = [NoEv EXCEPT !.kind = "statement", !.node = n, !.tag = conn[n].tag,
                       !.cver = c2[n].version, !.verdict = verdict]

\* the application begins a write transaction on its connection; a frozen
\* connector does not let it begin, and a connection of a stale version is
\* rejected and closed
Begin(n) ==
    /\ conn[n].state = "idle"
    /\ ~c2[n].frozen
    /\ writes < MaxWrites
    /\ IF conn[n].tag = c2[n].version
       THEN /\ conn' = [conn EXCEPT ![n].state = "tx"]
            /\ writes' = writes + 1
            /\ Statement(n, "run")
       ELSE /\ conn' = [conn EXCEPT ![n] = NoConn]
            /\ UNCHANGED writes
            /\ Statement(n, "rejected")
    /\ UNCHANGED <<switchover_state, bus, acked, freezeT, c2, c6, c5>>
    /\ UNCHANGED nonSwitchVars

\* the transaction commits; on old, while the triggers are installed, the
\* commit appends its change_log row
CommitWrite(n) ==
    /\ conn[n].state = "tx"
    /\ IF conn[n].tag = c2[n].version
       THEN /\ conn' = [conn EXCEPT ![n].state = "idle"]
            /\ c5' = IF conn[n].target = "old" /\ c5.triggers
                     THEN [c5 EXCEPT !.max_id = c5.max_id + 1] ELSE c5
            /\ Statement(n, "run")
       ELSE /\ conn' = [conn EXCEPT ![n] = NoConn]
            /\ UNCHANGED c5
            /\ Statement(n, "rejected")
    /\ UNCHANGED <<switchover_state, bus, acked, freezeT, c2, c6, writes>>
    /\ UNCHANGED nonSwitchVars

Released(n, verdict) ==
    ev' = [NoEv EXCEPT !.kind = "release", !.node = n, !.tag = conn[n].tag,
                       !.cver = c2[n].version, !.verdict = verdict]

\* mutant: a released connection always goes back to the pool
ReleaseKeeps(n) ==
    /\ conn[n].state = "idle"
    /\ conn' = [conn EXCEPT ![n] = NoConn]
    /\ Released(n, "pooled")
    /\ UNCHANGED <<switchover_state, bus, acked, freezeT, c2, c6, c5, writes>>
    /\ UNCHANGED nonSwitchVars

\* release: if the tag differs from the current version the connection is
\* destroyed instead of returned to the pool
Release(n) ==
    /\ conn[n].state = "idle"
    /\ conn' = [conn EXCEPT ![n] = NoConn]
    /\ IF conn[n].tag = c2[n].version
       THEN Released(n, "pooled")
       ELSE Released(n, "destroyed")
    /\ UNCHANGED <<switchover_state, bus, acked, freezeT, c2, c6, c5, writes>>
    /\ UNCHANGED nonSwitchVars

\* ---------------------------------------------------- sync engine (C5)
\* tail: read the change_log rows with id > cursor, at most TailBatch of
\* them, apply them in order to next and advance the cursor, all in one
\* transaction on next, where the cursor is persisted
TailRows(k) == [i \in 1..k |-> c5.cursor + i]

\* the sync engine is tailing
Tailing ==
    /\ Phase \in {"syncing", "ready", "executing", "executing'", "complete"}
    /\ c5.triggers

\* mutant: the rows are applied outside the transaction that saves the
\* cursor, so a batch that fails leaves them on next
TailApplyKeepsRows(k, outcome) ==
    /\ Tailing
    /\ k <= c5.max_id - c5.cursor
    /\ IF outcome = "commit"
       THEN /\ c5' = [c5 EXCEPT !.applied = c5.applied \o TailRows(k),
                                !.cursor = c5.cursor + k]
            /\ ev' = NoEv
       ELSE /\ c5' = [c5 EXCEPT !.applied = c5.applied \o TailRows(k)]
            /\ ev' = [NoEv EXCEPT !.kind = "tail", !.verdict = outcome]
    /\ UNCHANGED <<switchover_state, bus, acked, freezeT, c2, c6, conn, writes>>
    /\ UNCHANGED nonSwitchVars

\* One apply transaction of k rows.  It commits, and then its rows are on
\* next and the cursor is at the last of them; or it fails, or the engine
\* is restarted while it is open, and then it is rolled back and tail
\* resumes from the persisted cursor.
TailApply(k, outcome) ==
    /\ Tailing
    /\ k <= c5.max_id - c5.cursor
    /\ IF outcome = "commit"
       THEN /\ c5' = [c5 EXCEPT !.applied = c5.applied \o TailRows(k),
                                !.cursor = c5.cursor + k]
            /\ ev' = NoEv
       ELSE /\ UNCHANGED c5
            /\ ev' = [NoEv EXCEPT !.kind = "tail", !.verdict = outcome]
    /\ UNCHANGED <<switchover_state, bus, acked, freezeT, c2, c6, conn, writes>>
    /\ UNCHANGED nonSwitchVars

\* detach: after the cluster has cut over, the triggers are dropped
Detach ==
    /\ Phase = "complete"
    /\ \A n \in Nodes : c2[n].target = "next"
    /\ c5.triggers
    /\ c5.cursor = c5.max_id
    /\ c5' = [c5 EXCEPT !.triggers = FALSE]
    /\ ev' = NoEv
    /\ UNCHANGED <<switchover_state, bus, acked, freezeT, c2, c6, conn, writes>>
    /\ UNCHANGED nonSwitchVars

\* a process with both databases configured; its root command is not part
\* of this specification
InitSwitch ==
    /\ InitMetrics
    /\ flags = [db_url |-> "postgres://old", db_url_next |-> "postgres://next",
                api_only |-> FALSE]
    /\ RootNotStarted
    /\ SwitchoverIdle

NextSwitch ==
    \/ Enable
    \/ StartSync
    \/ Ready
    \/ Execute
    \/ FreezeTick
    \/ FlipDecide
    \/ AbortTimeout
    \/ Abort
    \/ \E n \in Nodes, m \in bus : Deliver(n, m)
    \/ \E n \in Nodes : SendAck(n)
    \/ \E n \in Nodes : ReceiveAck(n)
    \/ \E n \in Nodes : Acquire(n)
    \/ \E n \in Nodes : Begin(n)
    \/ \E n \in Nodes : CommitWrite(n)
    \/ \E n \in Nodes : Release(n)
    \/ \E k \in 1..TailBatch, outcome \in {"commit", "failure", "restart"} :
          TailApply(k, outcome)
    \/ Detach

SpecSwitch == InitSwitch /\ [][NextSwitch]_vars

\* the leader's timer runs and the leader acts on its expiry
SpecSwitchLive ==
    InitSwitch /\ [][NextSwitch]_vars /\ WF_vars(FreezeTick) /\ WF_vars(AbortTimeout)

\* ================================================================ claims
AMCommitted == last.fn = "UpdateAlertMetrics" /\ last.outcome = "commit"
DMCommitted == last.fn = "UpdateDailyAlertMetrics" /\ last.outcome = "commit"
Failed == last.outcome = "error"

\* p has a transaction open
InTx(p) ==
    pc[p] \in {"am_load", "am_now", "am_scan", "am_insert", "am_save", "am_commit",
               "dm_load", "dm_next", "dm_insert", "dm_save", "dm_commit"}
\* p has a transaction open and has loaded the state
HasLoaded(p) == InTx(p) /\ pc[p] \notin {"am_load", "dm_load"}

LastRow == last.rows[Len(last.rows)]
RowAlerts(rs) == {rs[k].alert_id : k \in 1..Len(rs)}

\* C1: whatever call returns (committed or failed), the persisted cursor
\* (LastLogTime, LastLogID) is not smaller than before, and a committed
\* UpdateAlertMetrics cycle with a non-empty batch makes it strictly greater.
C1_CursorNeverRegresses ==
    last.fn # "none" =>
        /\ CursorLeq(last.pre.blob.LastLogTime, last.pre.blob.LastLogID,
                     last.post.blob.LastLogTime, last.post.blob.LastLogID)
        /\ (AMCommitted /\ last.rows # <<>>) =>
               CursorLess(last.pre.blob.LastLogTime, last.pre.blob.LastLogID,
                          last.post.blob.LastLogTime, last.post.blob.LastLogID)

C3_EveryRowExactlyOnce ==
    \A r \in logs :
        CursorLeq(r.timestamp, r.id, blob.LastLogTime, blob.LastLogID) =>
            processed[r.id] = 1

\* C4: when a call returns an error, its transaction is gone (nothing
\* pending, lock released), the committed blob and tables are what they were
\* when it began, and a transaction that has loaded the state holds the
\* committed blob, so a retry starts from the same cursor.
C4_ErrorRollsBack ==
    /\ Failed =>
          /\ last.post = last.pre
          /\ DB = last.pre
          /\ lockHolder # last.p
          /\ txBlob[last.p] = NoSave /\ txMetrics[last.p] = {} /\ txDaily[last.p] = <<>>
    /\ \A p \in Procs : HasLoaded(p) => loaded[p] = blob

\* C4 witness: UpdateAlertMetrics failed at commit, after inserting metrics
\* for a non-empty batch and saving the state.
C4_Witness ==
    /\ Failed /\ last.fn = "UpdateAlertMetrics" /\ last.error = "commit"
    /\ last.rows # <<>>

\* C5: at most one invocation is between its begin and its commit or
\* rollback, it is the holder of the processing lock, and the blob it loaded
\* is still the committed one (nobody wrote the blob under it).
C5_SingleWriter ==
    /\ \A p, q \in Procs : (InTx(p) /\ InTx(q)) => p = q
    /\ \A p \in Procs : InTx(p) => (lockHolder = p /\ blob = snap[p].blob)
    /\ \A p \in Procs : HasLoaded(p) => loaded[p] = snap[p].blob

\* C5 witness: one invocation holds the lock with a saved, uncommitted state
\* while another invocation waits to begin.
C5_Witness ==
    \E p, q \in Procs :
        /\ p # q /\ InTx(p) /\ txBlob[p].saved
        /\ pc[q] \in {"am_begin", "dm_begin"}

\* C6: what a transaction saved or inserted is invisible until it commits
\* (the committed blob and tables stay as they were when it began); every
\* log row at or before the committed cursor has its metrics row, and every
\* metrics row belongs to a committed batch.
C6_VisibleOnlyAtCommit ==
    /\ \A p \in Procs : InTx(p) => DB = snap[p]
    /\ \A r \in logs :
          CursorLeq(r.timestamp, r.id, blob.LastLogTime, blob.LastLogID) =>
              Len(metrics[r.alert_id]) >= 1
    /\ \A r \in logs : Len(metrics[r.alert_id]) >= 1 => processed[r.id] >= 1
    /\ (AMCommitted /\ last.rows # <<>>) =>
          /\ last.post.blob # last.pre.blob
          /\ \A a \in RowAlerts(last.rows) : Len(last.post.metrics[a]) >= 1

\* C6 witness: a transaction has inserted metrics and saved an advanced
\* cursor and has not committed yet.
C6_Witness ==
    \E p \in Procs :
        /\ pc[p] = "am_commit" /\ txMetrics[p] # {}
        /\ txBlob[p].saved /\ txBlob[p].value # blob

\* C7: a committed cycle with a non-empty batch leaves exactly one metrics
\* row for every alert of the batch and touches no other alert's metrics;
\* the persisted cursor is the (time, id) of the batch's last row, which is
\* the greatest of the batch.
C7_NonEmptyBatch ==
    (AMCommitted /\ last.rows # <<>>) =>
        /\ \A a \in RowAlerts(last.rows) : Len(last.post.metrics[a]) = 1
        /\ \A a \in DOMAIN metrics :
              a \notin RowAlerts(last.rows) => last.post.metrics[a] = last.pre.metrics[a]
        /\ \A a \in RowAlerts(last.rows) :
              last.pre.metrics[a] # <<>> => last.post.metrics[a] = last.pre.metrics[a]
        /\ last.post.blob.LastLogTime = LastRow.timestamp
        /\ last.post.blob.LastLogID = LastRow.id
        /\ \A k \in 1..Len(last.rows) :
              CursorLeq(last.rows[k].timestamp, last.rows[k].id,
                        last.post.blob.LastLogTime, last.post.blob.LastLogID)

\* C7 witness: a batch of two rows with different timestamps committed.
C7_Witness ==
    /\ AMCommitted /\ Len(last.rows) = 2
    /\ last.rows[1].timestamp # last.rows[2].timestamp

\* C8: a committed cycle with an empty batch inserts nothing and persists
\* the cursor (bound_now, 0), bound_now being the server time read by the
\* transaction.
C8_EmptyBatch ==
    (AMCommitted /\ last.rows = <<>>) =>
        /\ last.post.metrics = last.pre.metrics
        /\ last.post.daily = last.pre.daily
        /\ last.post.blob.LastLogTime = last.boundNow
        /\ last.post.blob.LastLogID = 0
        /\ last.boundNow >= 1 /\ last.boundNow <= now

\* C8 witness: an empty batch committed over a cursor with a non-zero id.
C8_Witness ==
    /\ AMCommitted /\ last.rows = <<>>
    /\ last.pre.blob.LastLogID > 0

NoDuplicates(s) == \A i, j \in 1..Len(s) : s[i] = s[j] => i = j

\* C9: a committed UpdateDailyAlertMetrics cycle that found a next date d
\* inserted aggregates for d alone, with LastMetricsDate < d < day of
\* LastLogTime, and persisted LastMetricsDate = d; no call ever moves
\* LastMetricsDate back, as soon as LastLogTime is set LastMetricsDate is
\* before its day (both start at the zero time), and no date is aggregated
\* twice.
C9_DailyCursor ==
    /\ (DMCommitted /\ last.nextDate.Valid) =>
          /\ Day(last.pre.blob.LastMetricsDate) < Day(last.nextDate.Time)
          /\ Day(last.nextDate.Time) < Day(last.pre.blob.LastLogTime)
          /\ last.post.blob.LastMetricsDate = last.nextDate.Time
          /\ last.post.daily = Append(last.pre.daily, Day(last.nextDate.Time))
    /\ last.fn # "none" =>
          \/ last.post.blob.LastMetricsDate = last.pre.blob.LastMetricsDate
          \/ Day(last.post.blob.LastMetricsDate) > Day(last.pre.blob.LastMetricsDate)
    /\ blob.LastLogTime # ZeroTime =>
          Day(blob.LastMetricsDate) < Day(blob.LastLogTime)
    /\ blob.LastLogTime = ZeroTime => blob.LastMetricsDate = ZeroTime
    /\ NoDuplicates(daily)

\* C9 witness: a daily cycle found a date and committed.
C9_Witness == DMCommitted /\ last.nextDate.Valid /\ Len(daily) = 1

\* C10: when a transaction is aborted the committed cursor is the one it
\* started from, a transaction that has loaded the state holds the committed
\* cursor, and no alert ever has more than one metrics row.
C10_AbortAndRestart ==
    /\ Failed => blob = last.pre.blob
    /\ \A p \in Procs :
          HasLoaded(p) => /\ loaded[p].LastLogTime = blob.LastLogTime
                          /\ loaded[p].LastLogID = blob.LastLogID
    /\ \A a \in DOMAIN metrics : Len(metrics[a]) <= 1

\* C10 witness: a cycle was aborted mid-batch, after it had scanned a
\* non-empty batch and inserted its metrics.
C10_Witness ==
    /\ Failed /\ last.fn = "UpdateAlertMetrics" /\ last.error = "save state"
    /\ last.rows # <<>>

\* ------------------------------------------------ claims: root command
\* invocations of the shutdown function so far
fnCalls == Cardinality({i \in DOMAIN fnLog : fnLog[i] = "fn"})
fnRunning == fnPC \in {"Abort", "Shutdown"}

\* C11: once the goroutine of handleShutdown has received a second signal
\* the shutdown context is cancelled, in the same step and whatever the
\* timer shows; and a shutdown context that is cancelled while the shutdown
\* function is still running and the timeout has not elapsed was cancelled
\* by a second signal: with one signal only, it stays active until the
\* function returns or the timeout elapses.
C11_SecondSignalCancels ==
    /\ goPC = "done" => sCtx.state = "cancelled"
    /\ (sCtx.state = "cancelled" /\ fnRunning /\ elapsed < shutdownTimeout)
          => (sigSent >= 2 /\ goPC = "done" /\ sCtx.cause = "second signal")
    /\ (sigSent <= 1 /\ sCtx.state = "cancelled")
          => (fnPC = "returned" \/ elapsed = shutdownTimeout)

\* a second signal cancelled the context while the shutdown function was
\* running and before the timer had made its first tick
C11_Witness ==
    /\ goPC = "done" /\ sCtx.cause = "second signal"
    /\ fnRunning /\ elapsed = 0

\* C12: the shutdown function is not invoked while no signal was sent, it
\* has been invoked exactly once from the moment handleShutdown received
\* the first signal, whatever number of signals follows, and while it runs
\* its context exists and is cancelled before the timer shows more than
\* shutdownTimeout.
C12_ShutdownOnceUnderDeadline ==
    /\ sigSent = 0 => fnCalls = 0
    /\ hsPC \in {"none", "wait"} => fnCalls = 0
    /\ hsPC \in {"running", "returned"} => fnCalls = 1
    /\ fnRunning => sCtx.state # "none"
    /\ sCtx.state = "active" => elapsed < shutdownTimeout

\* the shutdown function still runs when the deadline has cancelled its
\* context, and further signals were sent
C12_Witness ==
    /\ fnPC = "Shutdown" /\ fnCalls = 1
    /\ sCtx.cause = "deadline exceeded"
    /\ sigSent >= 2

\* the second connector is the one opened on another URL than cfg.DBURL
secondConnector == connectors \ {flags.db_url} # {}

\* C13: a second connector is opened, and a switchover handler created,
\* only with a non-empty db-url-next; once the database handle is there,
\* with a non-empty db-url-next the handler exists, the second connector is
\* open and the handle is the handler's, and with an empty db-url-next
\* there is no handler and the handle is opened on the old database; the
\* app is built on that handle.
C13_SwitchoverMode ==
    /\ secondConnector => flags.db_url_next # ""
    /\ h # "nil" => flags.db_url_next # ""
    /\ db # "nil" =>
          IF flags.db_url_next # ""
          THEN h = "handler" /\ secondConnector /\ db = "h.DB()"
          ELSE h = "nil" /\ connectors = {flags.db_url} /\ db = "sql.OpenDB(dbc)"
    /\ app # "nil" => app = db

\* the app runs in switchover mode
C13_Witness ==
    /\ flags.db_url_next # "" /\ app = "h.DB()" /\ h = "handler"
    /\ connectors = {flags.db_url, flags.db_url_next}

\* what RunE can return before it calls getConfig
StartupErrors == {Wrap(Failure("read"), "read config"), Failure("prometheus")}

\* C14: with an empty db-url, getConfig returns ErrDBRequired (field
\* db-url, "is required"); RunE, if it gets as far as getConfig, returns
\* exactly that error, and it never gets past getConfig: no migration is
\* applied or verified, no connector opened, no handler or app created and
\* handleShutdown not started.
C14_DBRequired ==
    flags.db_url = "" =>
        /\ \A tlsErr \in BOOLEAN :
               getConfig(flags, tlsErr).err =
                   [wrap |-> "", field |-> "db-url", reason |-> "is required"]
        /\ rootPC \in {"start", "getConfig", "done"}
        /\ (ret.returned /\ ret.err \notin StartupErrors) => ret.err = ErrDBRequired
        /\ migrations = "none" /\ connectors = {} /\ h = "nil"
        /\ db = "nil" /\ app = "nil" /\ hsPC = "none"

\* RunE has returned ErrDBRequired
C14_Witness ==
    /\ flags.db_url = "" /\ ret.returned /\ ret.err = ErrDBRequired

\* ---------------------------------------------------- claims: switchover
WriteInProgress(n, backend) == conn[n].state = "tx" /\ conn[n].target = backend
FlipIssued == \E m \in bus : m.type = "flip"
AllOld == \A n \in Nodes : c2[n].target = "old"

\* C15: no two nodes have a write in progress on different backends: there
\* is no state in which one node has an open write transaction on old
\* while another has one on next.
C15_NoSplitBrain ==
    ~ \E a, b \in Nodes :
         a # b /\ WriteInProgress(a, "old") /\ WriteInProgress(b, "next")

\* C16: the version a handler has observed and the version of its
\* connector never decrease, the version of the row goes up by one with
\* every change of phase, a stale message that is delivered changes
\* nothing, and set_mode leaves the connector as it is for every version
\* older than its own.
C16_VersionsMonotone ==
    [][ /\ \A n \in Nodes : /\ c6'[n].version >= c6[n].version
                            /\ c2'[n].version >= c2[n].version
        /\ Version' >= Version
        /\ Phase' # Phase => Version' = Version + 1
        /\ (ev'.kind = "deliver" /\ ev'.verdict = "stale")
              => UNCHANGED <<switchover_state, bus, acked, freezeT, c2, c6,
                             conn, c5, writes>>
        /\ \A n \in Nodes : \A v \in 0..Version :
              v < c2[n].version => set_mode(c2[n], "old", v) = c2[n]
      ]_vars

\* a handler that has moved on has dropped a stale message
C16_Witness ==
    /\ ev.kind = "deliver" /\ ev.verdict = "stale"
    /\ \E n \in Nodes : c6[n].version > 1 /\ c2[n].version > 0

\* C17: in phase aborted every node's connector targets old (no node has
\* flipped) and the triggers that were installed are still there.
C17_AbortLeavesOld ==
    Phase = "aborted" => (AllOld /\ c5.triggers = c5.installed)

\* C18: the step that broadcasts flip is taken with every node's freeze ack
\* at the leader, the sync cursor at the greatest change_log id and every
\* node found live by the final heartbeat round; and a connector targets
\* next only when flip has been broadcast.
C18_FlipOnlyWhenSafe ==
    /\ ev.kind = "flip" =>
          /\ acked = Nodes
          /\ c5.cursor = c5.max_id
          /\ ev.heartbeats = Nodes
          /\ FlipIssued
    /\ \A n \in Nodes : c2[n].target = "next" => FlipIssued

\* the leader has just broadcast flip, after a write was synced
C18_Witness ==
    /\ ev.kind = "flip" /\ Phase = "executing'"
    /\ c5.max_id > 0

\* the freeze budget has passed and an ack has not reached the leader
AckMissing == Phase = "executing" /\ freezeT = FreezeBudget /\ acked # Nodes

\* C19: once the freeze budget has passed with an ack missing, the
\* switchover reaches aborted, and from then on it is never complete, flip
\* is never broadcast and every connector keeps targeting old.
C19_FreezeTimeoutAborts ==
    /\ AckMissing ~> (Phase = "aborted")
    /\ [](AckMissing => [](Phase # "complete" /\ ~FlipIssued /\ AllOld))

\* the switchover was aborted with the budget used up and an ack missing
C19_Witness ==
    /\ Phase = "aborted" /\ freezeT = FreezeBudget /\ acked # Nodes
    /\ \E n \in Nodes : c2[n].frozen

\* C20: a statement runs only on a connection whose tag is the connector's
\* current version, a statement on any other connection is rejected and the
\* connection closed, and a released connection goes back to the pool
\* exactly when its tag is the current version: otherwise it is destroyed.
C20_ConnectionFenced ==
    /\ ev.kind = "statement" =>
          /\ ev.verdict = "run" <=> ev.tag = ev.cver
          /\ ev.verdict = "rejected" => conn[ev.node] = NoConn
    /\ ev.kind = "release" =>
          /\ ev.verdict = "pooled" <=> ev.tag = ev.cver
          /\ ev.verdict = "destroyed" <=> ev.tag # ev.cver
    /\ \A n \in Nodes : conn[n].state = "tx" => conn[n].tag = c2[n].version

\* a connection acquired before the flip is released after it
C20_Witness ==
    /\ ev.kind = "release" /\ ev.verdict = "destroyed"
    /\ ev.tag < ev.cver

\* the handler of some node has just acted on a message
JustApplied == ev.kind = "deliver" /\ ev.verdict = "applied"

AppliedUpToCursor ==
    /\ Len(c5.applied) = c5.cursor
    /\ \A i \in 1..Len(c5.applied) : c5.applied[i] = i

\* C22: tail applies the change_log rows to next in strictly increasing id
\* order, every row above the cursor the tail started from and up to the
\* present cursor exactly once; the cursor never decreases, whatever
\* batches are committed, fail or are cut short by a restart, and a batch
\* that did not commit leaves the rows on next and the cursor as they were.
C22_TailInOrderExactlyOnce ==
    /\ [](AppliedUpToCursor /\ c5.cursor <= c5.max_id)
    /\ [][ /\ c5'.cursor >= c5.cursor
           /\ Len(c5'.applied) >= Len(c5.applied)
           /\ SubSeq(c5'.applied, 1, Len(c5.applied)) = c5.applied
           /\ ev'.kind = "tail" => c5' = c5
         ]_vars

\* the engine was restarted with part of the change_log applied and a row
\* still to apply
C22_Witness ==
    /\ ev.kind = "tail" /\ ev.verdict = "restart"
    /\ c5.cursor > 0 /\ c5.cursor < c5.max_id
    /\ c5.applied # <<>>

\* --------------------------------------------------- claims: subcommands
\* the names of the calls the RunE has made, in order, and whether name is
\* among them
callNames == [i \in DOMAIN run.calls |-> run.calls[i].name]
called(name) == \E i \in DOMAIN run.calls : run.calls[i].name = name
allOK == \A i \in DOMAIN run.calls : run.calls[i].ok

\* C23 as stated: switchover-shell starts the shell only with both URLs
\* configured; it returns ErrDBRequired when db-url is empty and, when
\* db-url is there and db-url-next is empty, the validation error on field
\* DBURLNext, the shell not started in either case.
C23_ShellNeedsBothURLs ==
    flags.command = "switchover-shell" =>
        /\ (rootPC = "RunShell" \/ called("RunShell")) =>
               flags.db_url # "" /\ flags.db_url_next # ""
        /\ (ret.returned /\ flags.db_url = "") =>
               ret.err = ErrDBRequired /\ ~called("RunShell")
        /\ (ret.returned /\ flags.db_url # "" /\ flags.db_url_next = "") =>
               ret.err = ErrDBURLNext /\ ~called("RunShell")

\* C23, amended: switchover-shell starts the shell only with both URLs
\* configured, and then on these two URLs; it returns ErrDBRequired when
\* db-url is empty and, when db-url is there and db-url-next is empty, the
\* error of getConfig if the TLS configuration failed to load and the
\* validation error on field DBURLNext otherwise, the shell not started in
\* any of these cases.
C23_ShellGuard ==
    flags.command = "switchover-shell" =>
        /\ (rootPC = "RunShell" \/ called("RunShell")) =>
               /\ flags.db_url # "" /\ flags.db_url_next # ""
               /\ cfg.DBURL = flags.db_url /\ cfg.DBURLNext = flags.db_url_next
        /\ (ret.returned /\ flags.db_url = "") =>
               ret.err = ErrDBRequired /\ ~called("RunShell")
        /\ (ret.returned /\ flags.db_url # "" /\ flags.db_url_next = "") =>
               /\ ret.err \in {ErrDBURLNext, Failure("tls config")}
               /\ ret.err.field = "DBURLNext" <=> ret.err # Failure("tls config")
               /\ ~called("RunShell")

\* switchover-shell has returned the validation error on DBURLNext
C23_Witness ==
    /\ flags.command = "switchover-shell" /\ ret.returned
    /\ flags.db_url # "" /\ flags.db_url_next = ""
    /\ ret.err = [wrap |-> "", field |-> "DBURLNext",
                  reason |-> "must not be empty for switchover"]

\* C24: migrate calls Down only when --down is set and before Up; a Down
\* that fails is returned and Up is not called; Up is called exactly when
\* --up is set or --down is not, unless RunE has returned before it; with
\* no flag at all Up applies every migration; and RunE returns nil only if
\* every call it made returned nil and none that was due is missing.
C24_MigrateDownThenUp ==
    flags.command = "migrate" =>
        LET upDue == flags.up # "" \/ flags.down = ""
        IN /\ callNames \in {<<>>, <<"Down">>, <<"Up">>, <<"Down", "Up">>}
           /\ called("Down") => flags.down # ""
           /\ called("Up") => upDue
           /\ (called("Down") /\ ~run.calls[1].ok) =>
                  /\ ~called("Up") /\ rootPC = "done"
                  /\ ret.err = Wrap(Failure("down"), "apply DOWN migrations")
           /\ (ret.returned /\ ret.err = NilErr) =>
                  /\ allOK
                  /\ called("Down") <=> flags.down # ""
                  /\ called("Up") <=> upDue
                  /\ (flags.down = "" /\ flags.up = "") => migrations = "up: all"
                  /\ (flags.down # "" /\ flags.up = "") => migrations = "down"
           /\ (ret.returned /\ ~allOK) => ret.err # NilErr
           /\ (ret.returned /\ allOK /\ ret.err # NilErr) => run.calls = <<>>

\* migrate --down --up has applied the DOWN and then the UP migrations
C24_Witness ==
    /\ flags.command = "migrate" /\ ret.returned /\ ret.err = NilErr
    /\ callNames = <<"Down", "Up">> /\ allOK

\* the checks of self-test that apply: Version with a bundled UI, DB with a
\* db-url and not offline, the three services unless offline, DST always
SelfTestRanApplicable ==
    /\ callNames # <<>> /\ callNames[Len(callNames)] = "DST Rules"
    /\ called("Version") <=> flags.AppVersion # ""
    /\ called("DB") <=> (flags.db_url # "" /\ ~flags.offline)
    /\ flags.offline => \A i \in DOMAIN callNames : callNames[i] \in {"Version", "DST Rules"}
    /\ ~flags.offline => \A s \in {"Twilio", "Mailgun", "Slack"} : called(s)
    /\ \A i, j \in DOMAIN callNames : i # j => callNames[i] # callNames[j]

\* C25 as stated: self-test, when it returns, has run every check that
\* applies, whatever failed before, and returns an error exactly if one of
\* them failed; a missing db-url is no error.
C25_SelfTest ==
    (flags.command = "self-test" /\ ret.returned) =>
        /\ SelfTestRanApplicable
        /\ ret.err # NilErr <=> ~allOK
        /\ ret.err # ErrDBRequired

\* C25, amended: unless getConfig fails on the TLS configuration, which
\* self-test returns at once with only the Version check run, self-test
\* runs every check that applies, whatever failed before, and returns an
\* error, "one or more checks failed.", exactly if one of them failed; a
\* missing db-url is no error.
C25_SelfTestChecks ==
    (flags.command = "self-test" /\ ret.returned) =>
        IF ret.err = Failure("tls config")
        THEN /\ flags.db_url # ""
             /\ \A i \in DOMAIN callNames : callNames[i] = "Version"
        ELSE /\ SelfTestRanApplicable
             /\ ret.err # NilErr <=> ~allOK
             /\ ret.err \in {NilErr, Failure("one or more checks failed.")}
             /\ run.failed <=> ~allOK

\* the DB check failed, the checks after it ran, and self-test failed
C25_Witness ==
    /\ flags.command = "self-test" /\ ret.returned /\ ret.err # NilErr
    /\ \E i \in DOMAIN run.calls : run.calls[i].name = "DB" /\ ~run.calls[i].ok
    /\ \A i \in DOMAIN run.calls : run.calls[i].name # "DB" => run.calls[i].ok
    /\ called("Slack") /\ called("DST Rules")

\* ------------------------------------------------------ claims: UpdateAll
\* C26: an UpdateAll whose context lacks the System permission returns the
\* error of the check with the database, the lock and every transaction
\* as they were and neither function entered; UpdateAlertMetrics is entered
\* from UpdateAll only when the check returned nil.
C26_NoPermissionNoWork ==
    /\ (last.fn = "UpdateAll" /\ last.outcome = "error") =>
          /\ last.error = "permission denied"
          /\ last.post = last.pre /\ DB = last.pre
          /\ pc[last.p] = "idle" /\ call[last.p] = "none"
          /\ lockHolder # last.p
          /\ txBlob[last.p] = NoSave /\ txMetrics[last.p] = {} /\ txDaily[last.p] = <<>>
    /\ (last.fn = "UpdateAll" /\ last.outcome = "entered") =>
          /\ last.error = "nil"
          /\ pc[last.p] = "am_begin" /\ call[last.p] = "UpdateAll"

\* UpdateAll was refused with a cursor already persisted
C26_Witness ==
    /\ last.fn = "UpdateAll" /\ last.error = "permission denied"
    /\ blob.LastLogID > 0

\* the last return went to an UpdateAll
InUpdateAll(fn) == last.call = "UpdateAll" /\ last.fn = fn

\* C27: inside UpdateAll, UpdateAlertMetrics that commits has ended its
\* transaction and released the lock, its state is the committed one, and
\* UpdateDailyAlertMetrics comes next; UpdateAlertMetrics that fails ends
\* UpdateAll; UpdateDailyAlertMetrics is entered from UpdateAll in no other
\* way than after that commit; and when UpdateDailyAlertMetrics fails the
\* database is what it was when its own transaction began, the committed
\* alert-metrics cursor included.
C27_TwoTransactions ==
    /\ [] /\ (InUpdateAll("UpdateAlertMetrics") /\ last.outcome = "commit") =>
                /\ pc[last.p] = "dm_begin" /\ call[last.p] = "UpdateAll"
                /\ lockHolder # last.p
                /\ txBlob[last.p] = NoSave
                /\ DB = last.post
          /\ (InUpdateAll("UpdateAlertMetrics") /\ last.outcome = "error") =>
                /\ pc[last.p] = "idle" /\ call[last.p] = "none"
                /\ last.post = last.pre
          /\ (InUpdateAll("UpdateDailyAlertMetrics") /\ last.outcome = "error") =>
                /\ last.post = last.pre /\ DB = last.pre
                /\ pc[last.p] = "idle" /\ call[last.p] = "none"
    /\ [][ \A p \in Procs :
             (call'[p] = "UpdateAll" /\ pc'[p] = "dm_begin" /\ pc[p] # "dm_begin") =>
                /\ last'.p = p /\ last'.call = "UpdateAll"
                /\ last'.fn = "UpdateAlertMetrics" /\ last'.outcome = "commit"
                /\ blob' = last'.post.blob
         ]_vars

\* the daily update of an UpdateAll failed inside its transaction, after an
\* alert-metrics cursor was committed
C27_Witness ==
    /\ InUpdateAll("UpdateDailyAlertMetrics") /\ last.outcome = "error"
    /\ last.error # "begin tx"
    /\ last.pre.blob.LastLogID > 0

\* C28: a committed UpdateAlertMetrics leaves LastMetricsDate and the daily
\* metrics as they were; a committed UpdateDailyAlertMetrics leaves
\* LastLogTime, LastLogID and the alert metrics as they were; and one that
\* found no next date leaves the whole state blob, and the database, as
\* they were.
C28_OwnCursorOnly ==
    /\ AMCommitted =>
          /\ last.post.blob.LastMetricsDate = last.pre.blob.LastMetricsDate
          /\ last.post.daily = last.pre.daily
    /\ DMCommitted =>
          /\ last.post.blob.LastLogTime = last.pre.blob.LastLogTime
          /\ last.post.blob.LastLogID = last.pre.blob.LastLogID
          /\ last.post.metrics = last.pre.metrics
    /\ (DMCommitted /\ ~last.nextDate.Valid) => last.post = last.pre

\* a daily update moved its date with an alert-metrics cursor in the blob
C28_Witness ==
    /\ DMCommitted /\ last.nextDate.Valid
    /\ last.pre.blob.LastLogID > 0
    /\ last.post.blob.LastMetricsDate # last.pre.blob.LastMetricsDate

\* ------------------------------------------------------- claims: shutdown
\* C29: with a switchover handler the shutdown function calls h.Abort()
\* first and app.Shutdown only once Abort has returned, and the return of
\* Abort always leads into Shutdown; without a handler it calls Shutdown
\* alone and Abort never; and a handler exists only in switchover mode.
C29_AbortBeforeShutdown ==
    /\ [] /\ fnLog \in (IF h # "nil"
                        THEN {<<>>, <<"fn", "Abort">>, <<"fn", "Abort", "Shutdown">>}
                        ELSE {<<>>, <<"fn", "Shutdown">>})
          /\ h # "nil" => flags.db_url_next # ""
          /\ (fnLog # <<>> /\ flags.db_url_next # "") => h # "nil"
          /\ fnPC = "none" => fnLog = <<>>
          /\ fnPC = "Abort" => fnLog = <<"fn", "Abort">>
          /\ fnPC \in {"Shutdown", "returned"} => fnLog[Len(fnLog)] = "Shutdown"
    /\ [][ (fnPC = "Abort" /\ fnPC' # "Abort") =>
              (fnPC' = "Shutdown" /\ fnLog' = Append(fnLog, "Shutdown"))
         ]_vars

\* the process was shut down in switchover mode: Abort, then Shutdown
C29_Witness ==
    /\ h # "nil" /\ fnPC = "returned"
    /\ fnLog = <<"fn", "Abort", "Shutdown">>
====
